---- MODULE Spec2Model ----
(***************************************************************************)
(* Lattice determinization (fstext/determinize-lattice-inl.h):             *)
(* LatticeStringRepository, the hash-consing interner of output-label      *)
(* sequences, and LatticeDeterminizer, the subset construction driven by a *)
(* LIFO work queue.                                                        *)
(*                                                                         *)
(* A string handle (an Entry pointer) is the index of its Entry in the     *)
(* allocation order of the repository; NULL is 0.  A Weight is a tropical  *)
(* cost: a natural number, or Zero (no path).  Lower cost is the greater   *)
(* weight in the semiring's order.                                         *)
(***************************************************************************)
EXTENDS Integers, Sequences, FiniteSets, TLC

\* ------------------------------------------------------------------ bounds
NumStates == 2          \* input states are 0 .. NumStates-1
MaxArcs == 2            \* arcs of an input automaton
MaxILabel == 1          \* input labels 0 (epsilon) .. MaxILabel
MaxOLabel == 2          \* output labels 0 (epsilon) .. MaxOLabel
MaxWeight == 1          \* arc costs 0 .. MaxWeight
MaxFinal == 1           \* final costs 0 .. MaxFinal
MaxRepo == 4            \* entries interned by the interner runs
MaxVec == 2             \* length of the label vectors handed to the interner
MaxOutStates == 4       \* output states a run creates before it is cut off
MaxDelta == 1           \* delta_ is 0 .. MaxDelta, in units of the cost grid
MaxGarbage == 1         \* handles an uninitialized StringId is read as

\* --------------------------------------------------------------- constants
NULL == 0               \* the empty string's handle
kNoStateId == -1        \* no state; the final-marker of a TempArc
OSF_UNKNOWN == 0
OSF_NO == 1
OSF_YES == 2

\* ------------------------------------------------------------------ weights
Zero == -1
One == 0

Plus(a, b) ==
    IF a = Zero THEN b
    ELSE IF b = Zero THEN a
    ELSE IF a <= b THEN a ELSE b

Times(a, b) == IF a = Zero \/ b = Zero THEN Zero ELSE a + b

\* Divide(a, b, DIVIDE_LEFT); b is never Zero where it is called.
Divide(a, b) == IF a = Zero THEN Zero ELSE a - b

\* Compare(w1, w2) on weights: +1 when w1 is the greater weight (lower cost).
CompareWeight(a, b) ==
    IF a = b THEN 0
    ELSE IF a = Zero THEN -1
    ELSE IF b = Zero THEN 1
    ELSE IF a < b THEN 1 ELSE -1

ApproxEqual(a, b, delta) ==
    IF a = Zero \/ b = Zero THEN a = b
    ELSE a <= b + delta /\ b <= a + delta

\* ----------------------------------------------- LatticeStringRepository
Entry(parent, i) == [parent |-> parent, i |-> i]

EmptyString == NULL

\* set_.find(&entry): the handles whose Entry equals (parent, i).
FindEntry(r, parent, i) == {k \in 1..Len(r) : r[k] = Entry(parent, i)}

\* A Successor that never looks the entry up.
SuccessorNoLookup(r, parent, i) ==
    [h |-> Len(r) + 1, r |-> Append(r, Entry(parent, i))]

Successor(r, parent, i) ==
    IF FindEntry(r, parent, i) = {}
    THEN [h |-> Len(r) + 1, r |-> Append(r, Entry(parent, i))]
    ELSE [h |-> CHOOSE k \in FindEntry(r, parent, i) : TRUE, r |-> r]

RECURSIVE ConvertToVector(_, _)
ConvertToVector(r, entry) ==
    IF entry = NULL THEN <<>>
    ELSE Append(ConvertToVector(r, r[entry].parent), r[entry].i)

\* for (i = from; i < vec.size(); i++) ans = Successor(ans, vec[i]);
\* `from` counts from 1 here.
RECURSIVE SuccessorLoop(_, _, _, _)
SuccessorLoop(r, ans, vec, from) ==
    IF from > Len(vec) THEN [h |-> ans, r |-> r]
    ELSE LET s == Successor(r, ans, vec[from])
         IN  SuccessorLoop(s.r, s.h, vec, from + 1)

\* A ConvertFromVector that drops the last label.
ConvertFromVectorShort(r, vec) ==
    IF vec = <<>> THEN [h |-> NULL, r |-> r]
    ELSE SuccessorLoop(r, NULL, SubSeq(vec, 1, Len(vec) - 1), 1)

ConvertFromVector(r, vec) == SuccessorLoop(r, NULL, vec, 1)

\* A Concatenate that starts from the empty string in place of a.
ConcatenateFromEmpty(r, a, b) ==
    IF a = NULL THEN [h |-> b, r |-> r]
    ELSE IF b = NULL THEN [h |-> a, r |-> r]
    ELSE SuccessorLoop(r, NULL, ConvertToVector(r, b), 1)

Concatenate(r, a, b) ==
    IF a = NULL THEN [h |-> b, r |-> r]
    ELSE IF b = NULL THEN [h |-> a, r |-> r]
    ELSE SuccessorLoop(r, a, ConvertToVector(r, b), 1)

\* A CommonLen that looks at the first position only.
CommonLenFirst(a_vec, b_vec, i) ==
    IF Len(a_vec) > 0 /\ Len(b_vec) > 0 /\ a_vec[1] = b_vec[1] THEN 1 ELSE 0

\* The number of leading positions at which a_vec and b_vec agree.
RECURSIVE CommonLen(_, _, _)
CommonLen(a_vec, b_vec, i) ==
    IF i < Len(a_vec) /\ i < Len(b_vec) /\ a_vec[i + 1] = b_vec[i + 1]
    THEN CommonLen(a_vec, b_vec, i + 1)
    ELSE i

CommonPrefix(r, a, b) ==
    LET a_vec == ConvertToVector(r, a)
        b_vec == ConvertToVector(r, b)
    IN  SuccessorLoop(r, NULL, SubSeq(a_vec, 1, CommonLen(a_vec, b_vec, 0)), 1)

\* The vector b after the call.
ReduceToCommonPrefix(r, a, b) ==
    LET a_vec == ConvertToVector(r, a)
        b1 == IF Len(b) > Len(a_vec) THEN SubSeq(b, 1, Len(a_vec)) ELSE b
    IN  SubSeq(b1, 1, CommonLen(b1, a_vec, 0))

\* assert(a_vec.size() >= n) is the caller's to keep: see RemovePrefixOk.
RemovePrefixOk(r, a, n) == n = 0 \/ Len(ConvertToVector(r, a)) >= n

\* A RemovePrefix that removes one label too few.
RemovePrefixKeepsOne(r, a, n) ==
    IF n = 0 THEN [h |-> a, r |-> r]
    ELSE SuccessorLoop(r, NULL, ConvertToVector(r, a), n)

RemovePrefix(r, a, n) ==
    IF n = 0 THEN [h |-> a, r |-> r]
    ELSE SuccessorLoop(r, NULL, ConvertToVector(r, a), n + 1)

RECURSIVE IsPrefixOf(_, _, _)
IsPrefixOf(r, a, b) ==
    IF a = NULL THEN TRUE
    ELSE IF a = b THEN TRUE
    ELSE IF b = NULL THEN FALSE
    ELSE IsPrefixOf(r, a, r[b].parent)

\* ----------------------------------------------------- the input automaton
\* ifst_ is [start, final, arcs, sorted]: final[s + 1] is state s's final
\* weight, arcs lists every arc (a state's arcs in the order ArcIterator
\* visits them), sorted is the known kILabelSorted property.
InputStates == 0..(NumStates - 1)

Arc(src, ilabel, olabel, weight, nextstate) ==
    [src |-> src, ilabel |-> ilabel, olabel |-> olabel, weight |-> weight,
     nextstate |-> nextstate]

ArcsFrom(fst, s) ==
    LET From(a) == a.src = s
    IN  SelectSeq(fst.arcs, From)

Final(fst, s) == fst.final[s + 1]

\* --------------------------------------------------- LatticeDeterminizer
Element(state, string, weight) ==
    [state |-> state, string |-> string, weight |-> weight]

TempArc(ilabel, string, nextstate, weight) ==
    [ilabel |-> ilabel, string |-> string, nextstate |-> nextstate,
     weight |-> weight]

SubsetEqual(s1, s2, delta) ==
    /\ Len(s1) = Len(s2)
    /\ \A k \in 1..Len(s1) :
          /\ s1[k].state = s2[k].state
          /\ s1[k].string = s2[k].string
          /\ ApproxEqual(s1[k].weight, s2[k].weight, delta)

\* The first position at which two vectors of equal length differ decides.
RECURSIVE CompareVec(_, _, _)
CompareVec(a_vec, b_vec, i) ==
    IF i > Len(a_vec) THEN 0
    ELSE IF a_vec[i] < b_vec[i] THEN -1
    ELSE IF a_vec[i] > b_vec[i] THEN 1
    ELSE CompareVec(a_vec, b_vec, i + 1)

\* A Compare that ignores the strings.
CompareWeightOnly(r, a_w, a_str, b_w, b_str) == CompareWeight(a_w, b_w)

Compare(r, a_w, a_str, b_w, b_str) ==
    IF CompareWeight(a_w, b_w) # 0 THEN CompareWeight(a_w, b_w)
    ELSE IF a_str = b_str THEN 0
    ELSE LET a_vec == ConvertToVector(r, a_str)
             b_vec == ConvertToVector(r, b_str)
         IN  IF Len(a_vec) < Len(b_vec) THEN -1
             ELSE IF Len(a_vec) > Len(b_vec) THEN 1
             ELSE CompareVec(a_vec, b_vec, 1)

\* osymbol_or_final_ after resize(state + 1, OSF_UNKNOWN).
ResizeOsf(osf, state) ==
    IF Len(osf) <= state
    THEN osf \o [k \in 1..(state + 1 - Len(osf)) |-> OSF_UNKNOWN]
    ELSE osf

\* An IsOsymbolOrFinal that answers yes for a final state.
IsOsymbolOrFinalKeepsFinal(fst, osf, state) ==
    LET o == ResizeOsf(osf, state)
        arcs == ArcsFrom(fst, state)
        yes == \/ Final(fst, state) # Zero
               \/ \E k \in 1..Len(arcs) : arcs[k].olabel # 0
    IN  [ans |-> yes,
         osf |-> [o EXCEPT ![state + 1] = IF yes THEN OSF_YES ELSE OSF_NO]]

\* [ans, osf]: the answer and the cache after the call.  A final state is
\* marked OSF_YES first, but the loop over its arcs then decides: without an
\* arc that carries an output symbol the mark is overwritten by OSF_NO.
IsOsymbolOrFinal(fst, osf, state) ==
    LET o == ResizeOsf(osf, state)
        o1 == IF Final(fst, state) # Zero
              THEN [o EXCEPT ![state + 1] = OSF_YES] ELSE o
        arcs == ArcsFrom(fst, state)
    IN  IF o[state + 1] = OSF_NO THEN [ans |-> FALSE, osf |-> o]
        ELSE IF o[state + 1] = OSF_YES THEN [ans |-> TRUE, osf |-> o]
        ELSE IF \E k \in 1..Len(arcs) : arcs[k].olabel # 0
             THEN [ans |-> TRUE, osf |-> [o1 EXCEPT ![state + 1] = OSF_YES]]
             ELSE [ans |-> FALSE, osf |-> [o1 EXCEPT ![state + 1] = OSF_NO]]

\* A ConvertToMinimal that removes nothing.
ConvertToMinimalKeepAll(fst, osf, subset) ==
    [ok |-> subset # <<>>, subset |-> subset, osf |-> osf]

\* [ok, subset, osf]: ok is assert(!subset->empty()).
RECURSIVE ConvertToMinimalLoop(_, _, _, _, _)
ConvertToMinimalLoop(fst, osf, subset, cur_in, out) ==
    IF cur_in > Len(subset) THEN [ok |-> TRUE, subset |-> out, osf |-> osf]
    ELSE LET q == IsOsymbolOrFinal(fst, osf, subset[cur_in].state)
         IN  ConvertToMinimalLoop(fst, q.osf, subset, cur_in + 1,
                 IF q.ans THEN Append(out, subset[cur_in]) ELSE out)

ConvertToMinimal(fst, osf, subset) ==
    IF subset = <<>> THEN [ok |-> FALSE, subset |-> subset, osf |-> osf]
    ELSE ConvertToMinimalLoop(fst, osf, subset, 1, <<>>)

\* -------------------------------------------------------- EpsilonClosure
\* cur_subset is a std::set ordered by state: a sequence ascending in state.
FindState(cur, state) == {k \in 1..Len(cur) : cur[k].state = state}

InsertElement(cur, e) ==
    LET below == {k \in 1..Len(cur) : cur[k].state < e.state}
        n == Cardinality(below)
    IN  SubSeq(cur, 1, n) \o <<e>> \o SubSeq(cur, n + 1, Len(cur))

\* A ClosureArc that queues the Element again when Compare finds a tie.
ClosureArcRequeueTie(arc, elem, cur, queue, r) ==
    LET str == IF arc.olabel = 0 THEN [h |-> elem.string, r |-> r]
               ELSE Successor(r, elem.string, arc.olabel)
        next_elem == Element(arc.nextstate, str.h,
                             Times(elem.weight, arc.weight))
        found == FindState(cur, next_elem.state)
    IN  IF found = {}
        THEN [cur |-> InsertElement(cur, next_elem),
              queue |-> Append(queue, next_elem), r |-> str.r]
        ELSE LET k == CHOOSE j \in found : TRUE
             IN  IF Compare(str.r, next_elem.weight, next_elem.string,
                            cur[k].weight, cur[k].string) >= 0
                 THEN [cur |-> [cur EXCEPT ![k] = next_elem],
                       queue |-> Append(queue, next_elem), r |-> str.r]
                 ELSE [cur |-> cur, queue |-> queue, r |-> str.r]

\* A ClosureArc that never replaces the Element of a state already there.
ClosureArcKeepsFirst(arc, elem, cur, queue, r) ==
    LET str == IF arc.olabel = 0 THEN [h |-> elem.string, r |-> r]
               ELSE Successor(r, elem.string, arc.olabel)
        next_elem == Element(arc.nextstate, str.h,
                             Times(elem.weight, arc.weight))
    IN  IF FindState(cur, next_elem.state) = {}
        THEN [cur |-> InsertElement(cur, next_elem),
              queue |-> Append(queue, next_elem), r |-> str.r]
        ELSE [cur |-> cur, queue |-> queue, r |-> str.r]

\* One arc of the loop over the arcs of elem.state: [cur, queue, r].
ClosureArc(arc, elem, cur, queue, r) ==
    LET str == IF arc.olabel = 0 THEN [h |-> elem.string, r |-> r]
               ELSE Successor(r, elem.string, arc.olabel)
        next_elem == Element(arc.nextstate, str.h,
                             Times(elem.weight, arc.weight))
        found == FindState(cur, next_elem.state)
    IN  IF found = {}
        THEN [cur |-> InsertElement(cur, next_elem),
              queue |-> Append(queue, next_elem), r |-> str.r]
        ELSE LET k == CHOOSE j \in found : TRUE
             IN  IF Compare(str.r, next_elem.weight, next_elem.string,
                            cur[k].weight, cur[k].string) = 1
                 THEN [cur |-> [cur EXCEPT ![k] = next_elem],
                       queue |-> Append(queue, next_elem), r |-> str.r]
                 ELSE [cur |-> cur, queue |-> queue, r |-> str.r]

\* A ClosureArcs whose scan, with the sorted property known, stops after the
\* first arc.
RECURSIVE ClosureArcsStopsEarly(_, _, _, _, _, _, _)
ClosureArcsStopsEarly(sorted, arcs, k, elem, cur, queue, r) ==
    IF k > Len(arcs) THEN [cur |-> cur, queue |-> queue, r |-> r]
    ELSE IF sorted /\ (arcs[k].ilabel # 0 \/ k > 1)
         THEN [cur |-> cur, queue |-> queue, r |-> r]
    ELSE IF arcs[k].ilabel = 0 /\ arcs[k].weight # Zero
         THEN LET c == ClosureArc(arcs[k], elem, cur, queue, r)
              IN  ClosureArcsStopsEarly(sorted, arcs, k + 1, elem,
                                        c.cur, c.queue, c.r)
    ELSE ClosureArcsStopsEarly(sorted, arcs, k + 1, elem, cur, queue, r)

RECURSIVE ClosureArcs(_, _, _, _, _, _, _)
ClosureArcs(sorted, arcs, k, elem, cur, queue, r) ==
    IF k > Len(arcs) THEN [cur |-> cur, queue |-> queue, r |-> r]
    ELSE IF sorted /\ arcs[k].ilabel # 0
         THEN [cur |-> cur, queue |-> queue, r |-> r]
    ELSE IF arcs[k].ilabel = 0 /\ arcs[k].weight # Zero
         THEN LET c == ClosureArc(arcs[k], elem, cur, queue, r)
              IN  ClosureArcs(sorted, arcs, k + 1, elem, c.cur, c.queue, c.r)
    ELSE ClosureArcs(sorted, arcs, k + 1, elem, cur, queue, r)

\* One pass of `while (queue.size() != 0)`: pop the back, follow its arcs.
ClosurePop(fst, cur, queue, r) ==
    LET elem == queue[Len(queue)]
    IN  ClosureArcs(fst.sorted, ArcsFrom(fst, elem.state), 1, elem, cur,
                    SubSeq(queue, 1, Len(queue) - 1), r)

\* ------------------------------------------------------- NormalizeSubset
RECURSIVE TotalWeight(_, _, _)
TotalWeight(elems, i, weight) ==
    IF i > Len(elems) THEN weight
    ELSE TotalWeight(elems, i + 1, Plus(weight, elems[i].weight))

RECURSIVE ReducePrefix(_, _, _, _)
ReducePrefix(r, elems, i, common_prefix) ==
    IF i > Len(elems) THEN common_prefix
    ELSE ReducePrefix(r, elems, i + 1,
             ReduceToCommonPrefix(r, elems[i].string, common_prefix))

RECURSIVE DivideLoop(_, _, _, _, _)
DivideLoop(r, elems, i, weight, prefix_len) ==
    IF i > Len(elems) THEN [elems |-> elems, r |-> r]
    ELSE LET s == RemovePrefix(r, elems[i].string, prefix_len)
         IN  DivideLoop(s.r,
                 [elems EXCEPT ![i] = Element(elems[i].state, s.h,
                                          Divide(elems[i].weight, weight))],
                 i + 1, weight, prefix_len)

\* A NormalizeSubset that leaves the prefix on the strings.
NormalizeSubsetKeepsPrefix(r, elems) ==
    IF elems = <<>>
    THEN [ok |-> FALSE, elems |-> elems, common_str |-> NULL,
          tot_weight |-> Zero, r |-> r]
    ELSE LET weight == TotalWeight(elems, 2, elems[1].weight)
             common_prefix ==
                 ReducePrefix(r, elems, 2, ConvertToVector(r, elems[1].string))
             d == DivideLoop(r, elems, 1, weight, 0)
             c == ConvertFromVector(d.r, common_prefix)
         IN  IF weight = Zero
             THEN [ok |-> FALSE, elems |-> elems, common_str |-> NULL,
                   tot_weight |-> Zero, r |-> r]
             ELSE [ok |-> TRUE, elems |-> d.elems, common_str |-> c.h,
                   tot_weight |-> weight, r |-> c.r]

\* A NormalizeSubset that leaves the weights undivided.
NormalizeSubsetKeepsWeight(r, elems) ==
    IF elems = <<>>
    THEN [ok |-> FALSE, elems |-> elems, common_str |-> NULL,
          tot_weight |-> Zero, r |-> r]
    ELSE LET weight == TotalWeight(elems, 2, elems[1].weight)
             common_prefix ==
                 ReducePrefix(r, elems, 2, ConvertToVector(r, elems[1].string))
             d == DivideLoop(r, elems, 1, One, Len(common_prefix))
             c == ConvertFromVector(d.r, common_prefix)
         IN  IF weight = Zero
             THEN [ok |-> FALSE, elems |-> elems, common_str |-> NULL,
                   tot_weight |-> Zero, r |-> r]
             ELSE [ok |-> TRUE, elems |-> d.elems, common_str |-> c.h,
                   tot_weight |-> weight, r |-> c.r]

\* [ok, elems, common_str, tot_weight, r]: ok is the two asserts.
NormalizeSubset(r, elems) ==
    IF elems = <<>>
    THEN [ok |-> FALSE, elems |-> elems, common_str |-> NULL,
          tot_weight |-> Zero, r |-> r]
    ELSE LET weight == TotalWeight(elems, 2, elems[1].weight)
             common_prefix ==
                 ReducePrefix(r, elems, 2, ConvertToVector(r, elems[1].string))
             d == DivideLoop(r, elems, 1, weight, Len(common_prefix))
             c == ConvertFromVector(d.r, common_prefix)
         IN  IF weight = Zero
             THEN [ok |-> FALSE, elems |-> elems, common_str |-> NULL,
                   tot_weight |-> Zero, r |-> r]
             ELSE [ok |-> TRUE, elems |-> d.elems, common_str |-> c.h,
                   tot_weight |-> weight, r |-> c.r]

\* ------------------------------------------------------ MakeSubsetUnique
\* out's last Element is *cur_out; a run of equal states keeps the
\* Compare-greatest (weight, string).
RECURSIVE MakeSubsetUniqueLoop(_, _, _, _)
MakeSubsetUniqueLoop(r, subset, cur_in, out) ==
    IF cur_in > Len(subset) THEN out
    ELSE IF out # <<>> /\ subset[cur_in].state = out[Len(out)].state
         THEN MakeSubsetUniqueLoop(r, subset, cur_in + 1,
                  IF Compare(r, subset[cur_in].weight, subset[cur_in].string,
                             out[Len(out)].weight, out[Len(out)].string) = 1
                  THEN [out EXCEPT ![Len(out)] = subset[cur_in]]
                  ELSE out)
    ELSE MakeSubsetUniqueLoop(r, subset, cur_in + 1,
                              Append(out, subset[cur_in]))

\* A MakeSubsetUnique that merges nothing.
MakeSubsetUniqueKeepsAll(r, subset) == subset

\* A MakeSubsetUnique that keeps the first Element of every run.
MakeSubsetUniqueFirst(r, subset) ==
    LET First(k) == k = 1 \/ subset[k].state # subset[k - 1].state
        RECURSIVE Keep(_)
        Keep(k) == IF k > Len(subset) THEN <<>>
                   ELSE (IF First(k) THEN <<subset[k]>> ELSE <<>>) \o Keep(k + 1)
    IN  Keep(1)

MakeSubsetUniqueOk(subset) ==
    IF Len(subset) < 2 THEN TRUE ELSE subset[1].state <= subset[2].state

MakeSubsetUnique(r, subset) == MakeSubsetUniqueLoop(r, subset, 1, <<>>)

\* What an uninitialized Weight can hold when it is read.
GarbageWeights == {Zero} \cup 0..MaxFinal

\* What an uninitialized StringId can hold when it is read: NULL, one of
\* the first MaxGarbage handles of the repository, or kWild, a pointer to
\* no Entry.
kWild == -1
GarbageHandles(r) ==
    {kWild} \cup 0..(IF Len(r) < MaxGarbage THEN Len(r) ELSE MaxGarbage)

\* ---------------------------------------------------------- ProcessFinal
\* acc is [is_final, final_weight, final_string]; final_weight starts out
\* uninitialized: whatever value `garbage` the build leaves there.
RECURSIVE ProcessFinalLoop(_, _, _, _, _)
ProcessFinalLoop(fst, r, minimal_subset, k, acc) ==
    IF k > Len(minimal_subset) THEN acc
    ELSE LET elem == minimal_subset[k]
             this_final_weight == Final(fst, elem.state)
         IN  ProcessFinalLoop(fst, r, minimal_subset, k + 1,
                 IF /\ this_final_weight # Zero
                    /\ Compare(r, this_final_weight, elem.string,
                               acc.final_weight, acc.final_string) = 1
                 THEN [is_final |-> TRUE, final_weight |-> this_final_weight,
                       final_string |-> elem.string]
                 ELSE acc)

\* A ProcessFinal that appends its record twice.
ProcessFinalTwice(fst, r, minimal_subset, garbage) ==
    LET acc == ProcessFinalLoop(fst, r, minimal_subset, 1,
                   [is_final |-> FALSE, final_weight |-> garbage,
                    final_string |-> NULL])
        rec == TempArc(0, acc.final_string, kNoStateId, acc.final_weight)
    IN  IF acc.is_final THEN <<rec, rec>> ELSE <<>>

\* The records ProcessFinal appends to output_arcs_[output_state].
ProcessFinal(fst, r, minimal_subset, garbage) ==
    LET acc == ProcessFinalLoop(fst, r, minimal_subset, 1,
                   [is_final |-> FALSE, final_weight |-> garbage,
                    final_string |-> NULL])
    IN  IF acc.is_final
        THEN <<TempArc(0, acc.final_string, kNoStateId, acc.final_weight)>>
        ELSE <<>>

\* ---------------------------------------------------- ProcessTransitions
Pair(first, second) == [first |-> first, second |-> second]

\* The arcs of one Element's state: [all_elems, r].
RECURSIVE ElemArcs(_, _, _, _, _)
ElemArcs(arcs, k, elem, all_elems, r) ==
    IF k > Len(arcs) THEN [all_elems |-> all_elems, r |-> r]
    ELSE IF arcs[k].ilabel # 0 /\ arcs[k].weight # Zero
         THEN LET str == IF arcs[k].olabel = 0
                         THEN [h |-> elem.string, r |-> r]
                         ELSE Successor(r, elem.string, arcs[k].olabel)
                  next_elem == Element(arcs[k].nextstate, str.h,
                                       Times(elem.weight, arcs[k].weight))
              IN  ElemArcs(arcs, k + 1, elem,
                      Append(all_elems, Pair(arcs[k].ilabel, next_elem)), str.r)
    ELSE ElemArcs(arcs, k + 1, elem, all_elems, r)

RECURSIVE AllElems(_, _, _, _, _)
AllElems(fst, minimal_subset, k, all_elems, r) ==
    IF k > Len(minimal_subset) THEN [all_elems |-> all_elems, r |-> r]
    ELSE LET e == ElemArcs(ArcsFrom(fst, minimal_subset[k].state), 1,
                           minimal_subset[k], all_elems, r)
         IN  AllElems(fst, minimal_subset, k + 1, e.all_elems, e.r)

\* A PairComparator that orders by state before input label.
PairComparatorStateFirst(p1, p2) ==
    IF p1.second.state < p2.second.state THEN TRUE
    ELSE IF p1.second.state > p2.second.state THEN FALSE
    ELSE p1.first < p2.first

PairComparator(p1, p2) ==
    IF p1.first < p2.first THEN TRUE
    ELSE IF p1.first > p2.first THEN FALSE
    ELSE p1.second.state < p2.second.state

\* std::sort(all_elems.begin(), all_elems.end(), pc).  Pairs the comparator
\* does not order keep their relative order here.
RECURSIVE SortPairs(_)
SortPairs(v) ==
    IF v = <<>> THEN <<>>
    ELSE LET sorted == SortPairs(SubSeq(v, 1, Len(v) - 1))
             x == v[Len(v)]
             n == Cardinality({k \in 1..Len(sorted) :
                                  ~PairComparator(x, sorted[k])})
         IN  SubSeq(sorted, 1, n) \o <<x>> \o SubSeq(sorted, n + 1, Len(sorted))

\* A run that ends after its first pair.
RunLengthOne(all_elems, n) == 1

\* while (cur != end && cur->first == ilabel): the length of the leading run.
RECURSIVE RunLength(_, _)
RunLength(all_elems, n) ==
    IF n < Len(all_elems) /\ all_elems[n + 1].first = all_elems[1].first
    THEN RunLength(all_elems, n + 1)
    ELSE n

ThisSubset(all_elems) ==
    [k \in 1..RunLength(all_elems, 0) |-> all_elems[k].second]

\* ------------------------------------------------------- the hash tables
\* A table is a set of [key, val]; find(key) may return any entry whose key
\* is SubsetEqual to the one looked up.
HashFind(hash, subset, delta) ==
    {e \in hash : SubsetEqual(e.key, subset, delta)}

\* A MinimalToStateId that answers with an id beyond the new state's.
MinimalToStateIdBeyond(hash, subset, nStates, delta) == {nStates + 1}

\* A MinimalToStateId that never finds the subset.
MinimalToStateIdNoFind(hash, subset, nStates, delta) == {nStates}

\* The ids MinimalToStateId may return: nStates is output_arcs_.size(), the
\* id of a state it creates.
MinimalToStateId(hash, subset, nStates, delta) ==
    IF HashFind(hash, subset, delta) = {} THEN {nStates}
    ELSE {e.val : e \in HashFind(hash, subset, delta)}

\* ------------------------------------------------------------ the state
VARIABLES
    ifst_,              \* the input automaton
    delta_,             \* the tolerance of SubsetEqual
    repository_,        \* the interner's entries, in allocation order
    output_states_,     \* output state s's subset is output_states_[s + 1]
    output_arcs_,       \* output state s's records are output_arcs_[s + 1]
    minimal_hash_,      \* set of [key, val]: val is an OutputStateId
    initial_hash_,      \* set of [key, val]: val is an Element
    queue_,             \* the work queue; its back is its last element
    osymbol_or_final_,  \* IsOsymbolOrFinal's cache
    pc,                 \* where the run is
    output_state,       \* ProcessState's argument
    all_elems,          \* ProcessTransitions: the sorted pairs from cur on
    frame,              \* ProcessTransition's locals while InitialToStateId runs
    cur_subset,         \* EpsilonClosure's cur_subset
    ec_queue,           \* EpsilonClosure's queue
    op,                 \* the interner call made last (interner runs)
    ofst,               \* the automaton Output writes
    destroy,            \* Output's argument
    this_state,         \* Output's loop over the output states
    iter,               \* Output's loop over this_state's records
    released,           \* the handles repository_.Destroy() has deleted
    lifo_out,           \* the records of an earlier run on the same input
    expanded,           \* the output states ProcessState has been called with
    emitted             \* what the calls of Output so far have emitted

vars == <<ifst_, delta_, repository_, output_states_, output_arcs_, minimal_hash_,
          initial_hash_, queue_, osymbol_or_final_, pc, output_state,
          all_elems, frame, cur_subset, ec_queue, op, ofst, destroy,
          this_state, iter, released, lifo_out, expanded, emitted>>

outVars == <<ofst, destroy, this_state, iter, released>>

detVars == <<outVars, lifo_out, expanded, emitted, ifst_, delta_, output_states_, output_arcs_, minimal_hash_,
             initial_hash_, queue_, osymbol_or_final_, pc, output_state,
             all_elems, frame, cur_subset, ec_queue>>

NoFrame == [ilabel |-> 0, common_str |-> NULL, tot_weight |-> One,
            subset_in |-> <<>>]
NoOp == [name |-> "none", args |-> <<>>, h |-> NULL, fresh |-> 0]

\* An automaton without states (after DeleteStates and SetStart(kNoStateId)).
NoFst == [start |-> kNoStateId, nstates |-> 0, arcs |-> <<>>, final |-> <<>>]

\* No earlier run.
NoRun == [taken |-> FALSE, arcs |-> <<>>]

\* What one call of Output has emitted: its mode, its destroy and *ofst.
Emission(compact, d, o) == [compact |-> compact, destroy |-> d, ofst |-> o]

\* ------------------------------------------------------------ the inputs
ArcPool ==
    {Arc(src, il, ol, w, ns) :
        src \in InputStates, il \in 0..MaxILabel, ol \in 0..MaxOLabel,
        w \in 0..MaxWeight, ns \in InputStates}

ArcSeqs == UNION {[1..n -> ArcPool] : n \in 0..MaxArcs}

Finals == [1..NumStates -> {Zero} \cup 0..MaxFinal]

\* The arcs of every state are in non-decreasing order of input label.
IsILabelSorted(arcs) ==
    \A j, k \in 1..Len(arcs) :
        (j < k /\ arcs[j].src = arcs[k].src) => arcs[j].ilabel <= arcs[k].ilabel

\* Section 8's scenario: states {0, 1, 2}, two a-arcs 0 -> 1 with output X
\* (cost 1) and Y (cost 2), state 1 final with cost 1.
ScenarioInput ==
    [start |-> 0, final |-> <<Zero, 1, Zero>>,
     arcs |-> <<Arc(0, 1, 1, 1, 1), Arc(0, 1, 2, 2, 1)>>, sorted |-> FALSE]

\* The automaton without states: Start() is kNoStateId.
NoStartInput ==
    [start |-> kNoStateId, final |-> <<>>, arcs |-> <<>>, sorted |-> FALSE]

Inputs ==
    {[start |-> 0, final |-> f, arcs |-> a, sorted |-> s] :
        f \in Finals, a \in ArcSeqs, s \in BOOLEAN}
    \cup {ScenarioInput, NoStartInput}

\* Initialize's subset before its EpsilonClosure; it has none when the
\* input has no start state.
StartSubset(fst) ==
    IF fst.start = kNoStateId THEN <<>>
    ELSE <<Element(fst.start, EmptyString, One)>>

\* The states a path of arcs reaches from the start state.
RECURSIVE ReachableFrom(_, _)
ReachableFrom(arcs, seen) ==
    LET more == seen \cup {arcs[k].nextstate :
                              k \in {j \in 1..Len(arcs) : arcs[j].src \in seen}}
    IN  IF more = seen THEN seen ELSE ReachableFrom(arcs, more)

\* The known property is true, and is taken as known only where a state
\* mixes epsilon and labelled arcs (elsewhere the scan of EpsilonClosure
\* has nothing to skip).  Since the run never looks at a state it cannot
\* reach or at the order of arcs of different states, unreachable states are
\* bare and the arcs are listed by source state.
ValidInput(fst) ==
    /\ fst.sorted =>
          /\ IsILabelSorted(fst.arcs)
          /\ \E j, k \in 1..Len(fst.arcs) :
                /\ fst.arcs[j].src = fst.arcs[k].src
                /\ fst.arcs[j].ilabel = 0 /\ fst.arcs[k].ilabel # 0
    /\ \A j, k \in 1..Len(fst.arcs) : j < k => fst.arcs[j].src <= fst.arcs[k].src
    /\ \A s \in 0..(Len(fst.final) - 1) :
          s \notin ReachableFrom(fst.arcs, {fst.start}) =>
              /\ Final(fst, s) = Zero
              /\ \A k \in 1..Len(fst.arcs) : fst.arcs[k].src # s

\* ---------------------------------------------------------- Initialize
\* The constructor has copied the input and Initialize has seeded the
\* start Element; its EpsilonClosure is about to run.
Init ==
    /\ ifst_ \in Inputs
    /\ ValidInput(ifst_)
    /\ delta_ \in 0..MaxDelta
    /\ repository_ = <<>>
    /\ output_states_ = <<>>
    /\ output_arcs_ = <<>>
    /\ minimal_hash_ = {}
    /\ initial_hash_ = {}
    /\ queue_ = <<>>
    /\ osymbol_or_final_ = <<>>
    /\ pc = "Initialize"
    /\ output_state = kNoStateId
    /\ all_elems = <<>>
    /\ frame = NoFrame
    /\ cur_subset = StartSubset(ifst_)
    /\ ec_queue = StartSubset(ifst_)
    /\ op = NoOp
    /\ ofst = NoFst
    /\ destroy = FALSE
    /\ this_state = 0
    /\ iter = 0
    /\ released = {}
    /\ lifo_out = NoRun
    /\ expanded = {}
    /\ emitted = <<>>

\* EpsilonClosure, one pass of its while loop, in Initialize or in
\* InitialToStateId.
EpsilonClosureStep ==
    /\ pc \in {"Initialize", "InitialToStateId"}
    /\ ec_queue # <<>>
    /\ LET c == ClosurePop(ifst_, cur_subset, ec_queue, repository_)
       IN  /\ Len(c.r) <= MaxRepo
           /\ cur_subset' = c.cur
           /\ ec_queue' = c.queue
           /\ repository_' = c.r
    /\ UNCHANGED <<outVars, lifo_out, expanded, emitted>>
    /\ UNCHANGED <<ifst_, delta_, output_states_, output_arcs_, minimal_hash_,
                   initial_hash_, queue_, osymbol_or_final_, pc, output_state,
                   all_elems, frame, op>>

\* Initialize after its EpsilonClosure: ConvertToMinimal, then state 0.
InitializeFinish ==
    /\ pc = "Initialize"
    /\ ec_queue = <<>>
    /\ IF ifst_.start = kNoStateId
       THEN UNCHANGED <<osymbol_or_final_, output_states_, output_arcs_,
                        minimal_hash_, queue_>>
       ELSE LET m == ConvertToMinimal(ifst_, osymbol_or_final_, cur_subset)
            IN  /\ osymbol_or_final_' = m.osf
                /\ output_states_' = <<m.subset>>
                /\ output_arcs_' = <<<<>>>>
                /\ minimal_hash_' = {[key |-> m.subset, val |-> 0]}
                /\ queue_' = <<0>>
    /\ pc' = "Determinize"
    /\ cur_subset' = <<>>
    /\ UNCHANGED <<outVars, lifo_out, expanded, emitted>>
    /\ UNCHANGED <<ifst_, delta_, repository_, initial_hash_, output_state, all_elems,
                   frame, ec_queue, op>>

\* A pop that leaves the output state in the queue.
RemoveAtKeeps(queue, i) == queue

\* queue_.back() and queue_.pop_back() for i the last index; the queue
\* without its i-th element.
RemoveAt(queue, i) ==
    SubSeq(queue, 1, i - 1) \o SubSeq(queue, i + 1, Len(queue))

\* Determinize's loop body for the i-th element of the queue: ProcessState
\* runs ProcessFinal and the first part of ProcessTransitions (collect and
\* sort the pairs).
DeterminizePopAt(i) ==
    /\ LET out_state == queue_[i]
           minimal_subset == output_states_[out_state + 1]
           a == AllElems(ifst_, minimal_subset, 1, <<>>, repository_)
       IN  /\ Len(a.r) <= MaxRepo
           /\ \E garbage \in GarbageWeights :
                 output_arcs_' =
                     [output_arcs_ EXCEPT ![out_state + 1] =
                         @ \o ProcessFinal(ifst_, repository_, minimal_subset,
                                           garbage)]
           /\ queue_' = RemoveAt(queue_, i)
           /\ output_state' = out_state
           /\ all_elems' = SortPairs(a.all_elems)
           /\ repository_' = a.r
           /\ pc' = IF a.all_elems = <<>> THEN "Determinize"
                    ELSE "ProcessTransitions"
    /\ expanded' = expanded \cup {queue_[i]}
    /\ UNCHANGED <<outVars, lifo_out, emitted>>
    /\ UNCHANGED <<ifst_, delta_, output_states_, minimal_hash_, initial_hash_,
                   osymbol_or_final_, frame, cur_subset, ec_queue, op>>

\* Determinize's loop: queue_.back(), pop_back(), ProcessState.
DeterminizePop ==
    /\ pc = "Determinize"
    /\ queue_ # <<>>
    /\ DeterminizePopAt(Len(queue_))

\* Determinize returns: the queue is empty.
DeterminizeReturn ==
    /\ pc = "Determinize"
    /\ queue_ = <<>>
    /\ pc' = "done"
    /\ UNCHANGED <<outVars, lifo_out, expanded, emitted>>
    /\ UNCHANGED <<ifst_, delta_, repository_, output_states_, output_arcs_,
                   minimal_hash_, initial_hash_, queue_, osymbol_or_final_,
                   output_state, all_elems, frame, cur_subset, ec_queue, op>>

\* ProcessTransition up to its call of InitialToStateId: MakeSubsetUnique
\* and NormalizeSubset of the leading run of all_elems.
TransitionFront(elems, r) ==
    NormalizeSubset(r, MakeSubsetUnique(r, ThisSubset(elems)))

AfterRun(elems) == SubSeq(elems, RunLength(elems, 0) + 1, Len(elems))

\* A ProcessTransition that does not record its arc.
PushArcDrops(arcs, state, temp_arc) == arcs

PushArc(arcs, state, temp_arc) ==
    [arcs EXCEPT ![state + 1] = Append(@, temp_arc)]

\* ProcessTransition when InitialToStateId finds the subset in
\* initial_hash_: the record is appended at once.
ProcessTransitionHit ==
    /\ pc = "ProcessTransitions"
    /\ all_elems # <<>>
    /\ MakeSubsetUniqueOk(ThisSubset(all_elems))
    /\ LET n == TransitionFront(all_elems, repository_)
       IN  /\ n.ok
           /\ \E e \in HashFind(initial_hash_, n.elems, delta_) :
                 LET c == Concatenate(n.r, n.common_str, e.val.string)
                 IN  /\ Len(c.r) <= MaxRepo
                     /\ repository_' = c.r
                     /\ output_arcs_' =
                            PushArc(output_arcs_, output_state,
                                TempArc(all_elems[1].first, c.h, e.val.state,
                                        Times(n.tot_weight, e.val.weight)))
    /\ all_elems' = AfterRun(all_elems)
    /\ pc' = IF AfterRun(all_elems) = <<>> THEN "Determinize"
             ELSE "ProcessTransitions"
    /\ UNCHANGED <<outVars, lifo_out, expanded, emitted>>
    /\ UNCHANGED <<ifst_, delta_, output_states_, minimal_hash_, initial_hash_, queue_,
                   osymbol_or_final_, output_state, frame, cur_subset,
                   ec_queue, op>>

\* ProcessTransition when initial_hash_ has no such subset:
\* InitialToStateId copies it and starts its EpsilonClosure.
ProcessTransitionMiss ==
    /\ pc = "ProcessTransitions"
    /\ all_elems # <<>>
    /\ MakeSubsetUniqueOk(ThisSubset(all_elems))
    /\ LET n == TransitionFront(all_elems, repository_)
       IN  /\ n.ok
           /\ HashFind(initial_hash_, n.elems, delta_) = {}
           /\ Len(n.r) <= MaxRepo
           /\ repository_' = n.r
           /\ frame' = [ilabel |-> all_elems[1].first,
                        common_str |-> n.common_str,
                        tot_weight |-> n.tot_weight, subset_in |-> n.elems]
           /\ cur_subset' = n.elems
           /\ ec_queue' = n.elems
    /\ all_elems' = AfterRun(all_elems)
    /\ pc' = "InitialToStateId"
    /\ UNCHANGED <<outVars, lifo_out, expanded, emitted>>
    /\ UNCHANGED <<ifst_, delta_, output_states_, output_arcs_, minimal_hash_,
                   initial_hash_, queue_, osymbol_or_final_, output_state, op>>

\* InitialToStateId after its EpsilonClosure, up to NormalizeSubset.
ClosedMinimal == ConvertToMinimal(ifst_, osymbol_or_final_, cur_subset)
ClosedNormal == NormalizeSubset(repository_, ClosedMinimal.subset)

\* NormalizeSubset's assert fails in InitialToStateId: the run aborts.
InitialToStateIdAbort ==
    /\ pc = "InitialToStateId"
    /\ ec_queue = <<>>
    /\ ~(ClosedMinimal.ok /\ ClosedNormal.ok)
    /\ pc' = "abort"
    /\ UNCHANGED <<outVars, lifo_out, expanded, emitted>>
    /\ UNCHANGED <<ifst_, delta_, repository_, output_states_, output_arcs_,
                   minimal_hash_, initial_hash_, queue_, osymbol_or_final_,
                   output_state, all_elems, frame, cur_subset, ec_queue, op>>

\* The rest of InitialToStateId (MinimalToStateId, the entry of
\* initial_hash_) and of ProcessTransition (the record).  On this path
\* InitialToStateId returns without assigning *remaining_weight and
\* *common_prefix, so ProcessTransition reads next_tot_weight and
\* next_common_str uninitialized; Concatenate of a wild pointer crashes.
InitialToStateIdFinish ==
    /\ pc = "InitialToStateId"
    /\ ec_queue = <<>>
    /\ ClosedMinimal.ok /\ ClosedNormal.ok
    /\ LET n == ClosedNormal
           nStates == Len(output_arcs_)
       IN  \E ans \in MinimalToStateId(minimal_hash_, n.elems, nStates, delta_),
              next_tot_weight \in GarbageWeights,
              next_common_str \in GarbageHandles(n.r) :
             LET wild == next_common_str = kWild
                 c == IF wild THEN [h |-> NULL, r |-> n.r]
                      ELSE Concatenate(n.r, frame.common_str, next_common_str)
                 created == ans = nStates
                 arcs == IF created THEN Append(output_arcs_, <<>>)
                         ELSE output_arcs_
             IN  /\ Len(c.r) <= MaxRepo
                 /\ created => nStates < MaxOutStates
                 /\ repository_' = c.r
                 /\ output_states_' =
                        IF created THEN Append(output_states_, n.elems)
                        ELSE output_states_
                 /\ minimal_hash_' =
                        IF created
                        THEN minimal_hash_ \cup {[key |-> n.elems, val |-> ans]}
                        ELSE minimal_hash_
                 /\ queue_' = IF created THEN Append(queue_, ans) ELSE queue_
                 /\ initial_hash_' = initial_hash_ \cup
                        {[key |-> frame.subset_in,
                          val |-> Element(ans, n.common_str, n.tot_weight)]}
                 /\ output_arcs_' =
                        IF wild THEN arcs
                        ELSE PushArc(arcs, output_state,
                                TempArc(frame.ilabel, c.h, ans,
                                        Times(frame.tot_weight,
                                              next_tot_weight)))
                 /\ pc' = IF wild THEN "crash"
                          ELSE IF all_elems = <<>> THEN "Determinize"
                          ELSE "ProcessTransitions"
    /\ osymbol_or_final_' = ClosedMinimal.osf
    /\ frame' = NoFrame
    /\ cur_subset' = <<>>
    /\ UNCHANGED <<outVars, lifo_out, expanded, emitted>>
    /\ UNCHANGED <<ifst_, delta_, output_state, all_elems, ec_queue, op>>

Next ==
    \/ EpsilonClosureStep
    \/ InitializeFinish
    \/ DeterminizePop
    \/ DeterminizeReturn
    \/ ProcessTransitionHit
    \/ ProcessTransitionMiss
    \/ InitialToStateIdAbort
    \/ InitialToStateIdFinish

Spec == Init /\ [][Next]_vars

\* ------------------------------------------------- two runs on one input
\* A fork that joins again: two arcs with different input labels leave the
\* start state, so that two output states wait in the queue together, and
\* states 1 and 2 each lead back to state 0, so that whichever of the two
\* is processed first asks InitialToStateId for the subset of state 0 first.
OrderInputs ==
    {[start |-> 0, final |-> <<Zero, Zero, Zero>>,
      arcs |-> <<Arc(0, 1, 1, One, 1), Arc(0, 2, 1, One, 2),
                 Arc(1, 1, ol, One, 0), Arc(2, 1, ol, One, 0)>>,
      sorted |-> FALSE] : ol \in 0..1}

\* The records of a finished run, their strings as label sequences.
Records(arcs, r) ==
    [s \in 1..Len(arcs) |->
        [k \in 1..Len(arcs[s]) |->
            [ilabel |-> arcs[s][k].ilabel, weight |-> arcs[s][k].weight,
             nextstate |-> arcs[s][k].nextstate,
             string |-> ConvertToVector(r, arcs[s][k].string)]]]

\* The main loop as it is: the back of the queue.
DeterminizePopLifo == ~lifo_out.taken /\ DeterminizePop

\* The main loop with another pop order: any element of the queue.
DeterminizePopOther ==
    /\ lifo_out.taken
    /\ pc = "Determinize"
    /\ queue_ # <<>>
    /\ \E i \in 1..Len(queue_) : DeterminizePopAt(i)

\* The first run has returned: keep its records and construct a second
\* determinizer on the same input.
Rerun ==
    /\ pc = "done"
    /\ ~lifo_out.taken
    /\ lifo_out' = [taken |-> TRUE,
                    arcs |-> Records(output_arcs_, repository_)]
    /\ repository_' = <<>>
    /\ output_states_' = <<>>
    /\ output_arcs_' = <<>>
    /\ minimal_hash_' = {}
    /\ initial_hash_' = {}
    /\ queue_' = <<>>
    /\ osymbol_or_final_' = <<>>
    /\ pc' = "Initialize"
    /\ output_state' = kNoStateId
    /\ all_elems' = <<>>
    /\ frame' = NoFrame
    /\ cur_subset' = StartSubset(ifst_)
    /\ ec_queue' = StartSubset(ifst_)
    /\ op' = NoOp
    /\ expanded' = {}
    /\ UNCHANGED <<ifst_, delta_, outVars, emitted>>

OrderInit ==
    /\ ifst_ \in OrderInputs
    /\ ValidInput(ifst_)
    /\ delta_ = 0
    /\ repository_ = <<>>
    /\ output_states_ = <<>>
    /\ output_arcs_ = <<>>
    /\ minimal_hash_ = {}
    /\ initial_hash_ = {}
    /\ queue_ = <<>>
    /\ osymbol_or_final_ = <<>>
    /\ pc = "Initialize"
    /\ output_state = kNoStateId
    /\ all_elems = <<>>
    /\ frame = NoFrame
    /\ cur_subset = StartSubset(ifst_)
    /\ ec_queue = StartSubset(ifst_)
    /\ op = NoOp
    /\ ofst = NoFst
    /\ destroy = FALSE
    /\ this_state = 0
    /\ iter = 0
    /\ released = {}
    /\ lifo_out = NoRun
    /\ expanded = {}
    /\ emitted = <<>>

OrderNext ==
    \/ EpsilonClosureStep
    \/ InitializeFinish
    \/ DeterminizePopLifo
    \/ DeterminizePopOther
    \/ DeterminizeReturn
    \/ ProcessTransitionHit
    \/ ProcessTransitionMiss
    \/ InitialToStateIdAbort
    \/ InitialToStateIdFinish
    \/ Rerun

OrderSpec == OrderInit /\ [][OrderNext]_vars

\* ----------------------------------------------------------------- Output
MaxStale == 1           \* length of the vectors a deleted Entry is read as

\* FreeMostMemory: everything but output_arcs_ goes; repository_.Destroy()
\* deletes every Entry.  ifst_ stands for the caller's automaton, which
\* outlives the copy deleted here.
FreeMostMemory ==
    /\ minimal_hash_' = {}
    /\ initial_hash_' = {}
    /\ released' = 1..Len(repository_)
    /\ output_states_' = <<>>
    /\ osymbol_or_final_' = <<>>
    /\ queue_' = <<>>

\* An Output with destroy = false that deletes the interner's entries.
KeepMemoryReleases ==
    /\ released' = 1..Len(repository_)
    /\ UNCHANGED <<minimal_hash_, initial_hash_, output_states_,
                   osymbol_or_final_, queue_>>

KeepMemory ==
    UNCHANGED <<minimal_hash_, initial_hash_, released, output_states_,
                osymbol_or_final_, queue_>>

\* n calls of AddState and SetStart(0); zero is the weight type's Zero.
AddStates(n, zero) ==
    [start |-> 0, nstates |-> n, arcs |-> <<>>, final |-> [s \in 1..n |-> zero]]

\* CompactWeight(weight, seq).
CompactWeight(weight, seq) == [weight |-> weight, string |-> seq]

\* What ConvertToVector can give for the handle of a deleted Entry.
StaleVectors == UNION {[1..n -> 1..MaxOLabel] : n \in 0..MaxStale}

\* repository_.ConvertToVector(entry, &seq) in Output: NULL is not
\* dereferenced; a released Entry is read after its delete, so seq is what
\* was there or anything else.
ReadString(entry) ==
    IF entry = NULL THEN {<<>>}
    ELSE IF entry \in released
         THEN {ConvertToVector(repository_, entry)} \cup StaleVectors
         ELSE {ConvertToVector(repository_, entry)}

AddArc(o, arc) == [o EXCEPT !.arcs = Append(@, arc)]

AddState(o) ==
    [o EXCEPT !.nstates = @ + 1, !.final = Append(@, Zero)]

SetFinal(o, s, weight) == [o EXCEPT !.final[s + 1] = weight]

\* The body of the compact Output's inner loop for temp_arc.
EmitCompact(o, s, temp_arc, seq) ==
    IF temp_arc.nextstate = kNoStateId
    THEN SetFinal(o, s, CompactWeight(temp_arc.weight, seq))
    ELSE AddArc(o, [src |-> s, ilabel |-> temp_arc.ilabel,
                    olabel |-> temp_arc.ilabel,
                    weight |-> CompactWeight(temp_arc.weight, seq),
                    nextstate |-> temp_arc.nextstate])

\* The expanded Output's chain for a final record, from seq[i] on.
RECURSIVE FinalChain(_, _, _, _, _)
FinalChain(o, cur_state, temp_arc, seq, i) ==
    IF i > Len(seq)
    THEN SetFinal(o, cur_state,
                  IF Len(seq) = 0 THEN temp_arc.weight ELSE One)
    ELSE LET next_state == o.nstates
             arc == [src |-> cur_state, ilabel |-> 0, olabel |-> seq[i],
                     weight |-> IF i = 1 THEN temp_arc.weight ELSE One,
                     nextstate |-> next_state]
         IN  FinalChain(AddArc(AddState(o), arc), next_state, temp_arc,
                        seq, i + 1)

\* The expanded Output's chain for a transition record, from seq[i] on.
RECURSIVE ArcChain(_, _, _, _, _)
ArcChain(o, cur_state, temp_arc, seq, i) ==
    IF i + 1 > Len(seq)
    THEN AddArc(o, [src |-> cur_state,
                    ilabel |-> IF Len(seq) <= 1 THEN temp_arc.ilabel ELSE 0,
                    olabel |-> IF Len(seq) > 0 THEN seq[Len(seq)] ELSE 0,
                    weight |-> IF Len(seq) <= 1 THEN temp_arc.weight ELSE One,
                    nextstate |-> temp_arc.nextstate])
    ELSE LET next_state == o.nstates
             arc == [src |-> cur_state,
                     ilabel |-> IF i = 1 THEN temp_arc.ilabel ELSE 0,
                     olabel |-> seq[i],
                     weight |-> IF i = 1 THEN temp_arc.weight ELSE One,
                     nextstate |-> next_state]
         IN  ArcChain(AddArc(AddState(o), arc), next_state, temp_arc,
                      seq, i + 1)

\* The body of the expanded Output's inner loop for temp_arc.
EmitExpanded(o, s, temp_arc, seq) ==
    IF temp_arc.nextstate = kNoStateId
    THEN FinalChain(o, s, temp_arc, seq, 1)
    ELSE ArcChain(o, s, temp_arc, seq, 1)

\* Output(MutableFst<CompactArc> *ofst, destroy) up to its loop.
OutputCompactBegin ==
    /\ pc = "done"
    /\ \E d \in BOOLEAN :
          /\ destroy' = d
          /\ IF d THEN FreeMostMemory ELSE KeepMemory
    /\ IF Len(output_arcs_) = 0
       THEN /\ ofst' = NoFst
            /\ pc' = "returned"
            /\ emitted' = Append(emitted, Emission(TRUE, destroy', NoFst))
       ELSE /\ ofst' = AddStates(Len(output_arcs_), CompactWeight(Zero, <<>>))
            /\ pc' = "OutputCompact"
            /\ emitted' = emitted
    /\ this_state' = 0
    /\ iter' = 0
    /\ UNCHANGED <<ifst_, delta_, repository_, output_arcs_, output_state,
                   all_elems, frame, cur_subset, ec_queue, op, lifo_out, expanded>>

\* Output(MutableFst<Arc> *ofst, destroy) up to its loop: without states
\* it returns before FreeMostMemory.
OutputExpandedBegin ==
    /\ pc = "done"
    /\ \E d \in BOOLEAN :
          /\ destroy' = d
          /\ IF d /\ Len(output_arcs_) # 0 THEN FreeMostMemory ELSE KeepMemory
    /\ IF Len(output_arcs_) = 0
       THEN /\ ofst' = NoFst
            /\ pc' = "returned"
            /\ emitted' = Append(emitted, Emission(FALSE, destroy', NoFst))
       ELSE /\ ofst' = AddStates(Len(output_arcs_), Zero)
            /\ pc' = "OutputExpanded"
            /\ emitted' = emitted
    /\ this_state' = 0
    /\ iter' = 0
    /\ UNCHANGED <<ifst_, delta_, repository_, output_arcs_, output_state,
                   all_elems, frame, cur_subset, ec_queue, op, lifo_out, expanded>>

\* Output's loops stand before a record of this_state.
AtRecord ==
    /\ pc \in {"OutputCompact", "OutputExpanded"}
    /\ this_state < Len(output_arcs_)
    /\ iter < Len(output_arcs_[this_state + 1])

\* *iter, the record the inner loop is at.
ThisRecord == output_arcs_[this_state + 1][iter + 1]

\* One pass of the compact Output's inner loop.
OutputCompactArc ==
    /\ pc = "OutputCompact"
    /\ AtRecord
    /\ \E seq \in ReadString(ThisRecord.string) :
          ofst' = EmitCompact(ofst, this_state, ThisRecord, seq)
    /\ iter' = iter + 1
    /\ UNCHANGED <<ifst_, delta_, repository_, output_states_, output_arcs_,
                   minimal_hash_, initial_hash_, queue_, osymbol_or_final_,
                   pc, output_state, all_elems, frame, cur_subset, ec_queue,
                   op, destroy, this_state, released, lifo_out, expanded, emitted>>

\* One pass of the expanded Output's inner loop.
OutputExpandedArc ==
    /\ pc = "OutputExpanded"
    /\ AtRecord
    /\ \E seq \in ReadString(ThisRecord.string) :
          ofst' = EmitExpanded(ofst, this_state, ThisRecord, seq)
    /\ iter' = iter + 1
    /\ UNCHANGED <<ifst_, delta_, repository_, output_states_, output_arcs_,
                   minimal_hash_, initial_hash_, queue_, osymbol_or_final_,
                   pc, output_state, all_elems, frame, cur_subset, ec_queue,
                   op, destroy, this_state, released, lifo_out, expanded, emitted>>

\* ConvertToVector follows the pointers of a deleted Entry out of the heap.
OutputCrash ==
    /\ AtRecord
    /\ ThisRecord.string # NULL
    /\ ThisRecord.string \in released
    /\ pc' = "crash"
    /\ UNCHANGED <<ifst_, delta_, repository_, output_states_, output_arcs_,
                   minimal_hash_, initial_hash_, queue_, osymbol_or_final_,
                   output_state, all_elems, frame, cur_subset, ec_queue, op,
                   outVars, lifo_out, expanded, emitted>>

\* The end of the inner loop: with destroy, this_vec is swapped away.
OutputNextState ==
    /\ pc \in {"OutputCompact", "OutputExpanded"}
    /\ this_state < Len(output_arcs_)
    /\ iter = Len(output_arcs_[this_state + 1])
    /\ output_arcs_' = IF destroy
                       THEN [output_arcs_ EXCEPT ![this_state + 1] = <<>>]
                       ELSE output_arcs_
    /\ this_state' = this_state + 1
    /\ iter' = 0
    /\ UNCHANGED <<ifst_, delta_, repository_, output_states_, minimal_hash_,
                   initial_hash_, queue_, osymbol_or_final_, pc, output_state,
                   all_elems, frame, cur_subset, ec_queue, op, ofst, destroy,
                   released, lifo_out, expanded, emitted>>

\* The end of the outer loop: with destroy, output_arcs_ is swapped away.
OutputReturn ==
    /\ pc \in {"OutputCompact", "OutputExpanded"}
    /\ this_state = Len(output_arcs_)
    /\ output_arcs_' = IF destroy THEN <<>> ELSE output_arcs_
    /\ pc' = "returned"
    /\ emitted' = Append(emitted,
                       Emission(pc = "OutputCompact", destroy, ofst))
    /\ UNCHANGED <<ifst_, delta_, repository_, output_states_, minimal_hash_,
                   initial_hash_, queue_, osymbol_or_final_, output_state,
                   all_elems, frame, cur_subset, ec_queue, op, outVars,
                   lifo_out, expanded>>

\* The runs that go on to Output: exact weight comparison, arcs of weight
\* One, the sorted property not known.
OutputInit ==
    /\ Init
    /\ delta_ = 0
    /\ ~ifst_.sorted
    /\ \A k \in 1..Len(ifst_.arcs) : ifst_.arcs[k].weight = One

OutputRunNext ==
    \/ EpsilonClosureStep
    \/ InitializeFinish
    \/ DeterminizePop
    \/ DeterminizeReturn
    \/ ProcessTransitionHit
    \/ ProcessTransitionMiss
    \/ InitialToStateIdAbort
    \/ InitialToStateIdFinish
    \/ OutputCompactBegin
    \/ OutputExpandedBegin
    \/ OutputCompactArc
    \/ OutputExpandedArc
    \/ OutputCrash
    \/ OutputNextState
    \/ OutputReturn

\* Construction (Initialize, Determinize), then one call of Output.
OutputSpec == OutputInit /\ [][OutputRunNext]_vars

MaxCalls == 2           \* calls of Output on one determinizer

\* The caller calls Output once more after a call with destroy = false.
OutputAgain ==
    /\ pc = "returned"
    /\ ~destroy
    /\ Len(emitted) < MaxCalls
    /\ pc' = "done"
    /\ UNCHANGED <<ifst_, delta_, repository_, output_states_, output_arcs_,
                   minimal_hash_, initial_hash_, queue_, osymbol_or_final_,
                   output_state, all_elems, frame, cur_subset, ec_queue, op,
                   outVars, lifo_out, expanded, emitted>>

RepeatNext ==
    \/ OutputRunNext
    \/ OutputAgain

\* Construction, then up to MaxCalls calls of Output.
RepeatSpec == OutputInit /\ [][RepeatNext]_vars


\* ------------------------------------------------- the interner by itself
\* Runs of LatticeStringRepository alone: any of its operations, on any
\* handles it has returned, in any order.  op records the call made last:
\* its name, its arguments, the handle returned and the number of entries
\* the call allocated.
Labels == 1..MaxOLabel
Vectors == UNION {[1..n -> Labels] : n \in 0..MaxVec}
Handles == 0..Len(repository_)

RepoInit ==
    /\ ifst_ = ScenarioInput
    /\ delta_ = 0
    /\ repository_ = <<>>
    /\ output_states_ = <<>>
    /\ output_arcs_ = <<>>
    /\ minimal_hash_ = {}
    /\ initial_hash_ = {}
    /\ queue_ = <<>>
    /\ osymbol_or_final_ = <<>>
    /\ pc = "interner"
    /\ output_state = kNoStateId
    /\ all_elems = <<>>
    /\ frame = NoFrame
    /\ cur_subset = <<>>
    /\ ec_queue = <<>>
    /\ op = NoOp
    /\ ofst = NoFst
    /\ destroy = FALSE
    /\ this_state = 0
    /\ iter = 0
    /\ released = {}
    /\ lifo_out = NoRun
    /\ expanded = {}
    /\ emitted = <<>>

\* The call `name(args)` returned res = [h, r].
Called(name, args, res) ==
    /\ Len(res.r) <= MaxRepo
    /\ repository_' = res.r
    /\ op' = [name |-> name, args |-> args, h |-> res.h,
              fresh |-> Len(res.r) - Len(repository_)]
    /\ UNCHANGED detVars

RepoSuccessor ==
    \E parent \in Handles, i \in Labels :
        Called("Successor", <<parent, i>>, Successor(repository_, parent, i))

RepoConcatenate ==
    \E a \in Handles, b \in Handles :
        Called("Concatenate", <<a, b>>, Concatenate(repository_, a, b))

RepoCommonPrefix ==
    \E a \in Handles, b \in Handles :
        Called("CommonPrefix", <<a, b>>, CommonPrefix(repository_, a, b))

RepoRemovePrefix ==
    \E a \in Handles :
        \E n \in 0..Len(ConvertToVector(repository_, a)) :
            /\ RemovePrefixOk(repository_, a, n)
            /\ Called("RemovePrefix", <<a, n>>, RemovePrefix(repository_, a, n))

RepoConvertFromVector ==
    \E vec \in Vectors :
        Called("ConvertFromVector", <<vec>>, ConvertFromVector(repository_, vec))

\* Compare on two (weight, string) pairs of the repository, the second of
\* weight One.
RepoCompare ==
    \E a_w \in GarbageWeights, a \in Handles, b \in Handles :
        Called("Compare", <<a_w, a, One, b>>,
               [h |-> Compare(repository_, a_w, a, One, b),
                r |-> repository_])

RepoNext ==
    \/ RepoSuccessor
    \/ RepoConcatenate
    \/ RepoCommonPrefix
    \/ RepoRemovePrefix
    \/ RepoConvertFromVector

RepoSpec == RepoInit /\ [][RepoNext]_vars

\* The strings made by Successor, and Compare called on them.
CompareNext ==
    \/ RepoSuccessor
    \/ RepoCompare

CompareRuns == RepoInit /\ [][CompareNext]_vars

\* ------------------------------------------------------------ properties
\* C8 (hash-consing): in every state of the interner, two handles are the
\* same handle if and only if they denote the same label sequence; the
\* empty sequence is denoted by the sentinel EmptyString and by no other
\* handle, and the handle a call returns is one the interner owns.
HashConsingInvariant ==
    /\ \A a \in Handles, b \in Handles :
          (a = b) <=> (ConvertToVector(repository_, a) =
                       ConvertToVector(repository_, b))
    /\ \A a \in Handles :
          (ConvertToVector(repository_, a) = <<>>) <=> (a = EmptyString)
    /\ op.h \in Handles

\* A sequence interned before was built again and allocated nothing.
HashConsingWitness ==
    /\ op.name = "ConvertFromVector"
    /\ Len(op.args[1]) = MaxVec
    /\ op.fresh = 0
    /\ Len(repository_) > MaxVec

\* C9 (round trip): whatever was interned before, interning a vector v and
\* converting the handle back gives v, and the Successor by a label x of
\* the handle of v converts to v with x appended.
InternerRoundTrip ==
    /\ \A v \in Vectors :
          LET c == ConvertFromVector(repository_, v)
          IN  /\ ConvertToVector(c.r, c.h) = v
              /\ \A x \in Labels :
                    LET n == Successor(c.r, c.h, x)
                    IN  ConvertToVector(n.r, n.h) = Append(v, x)
    /\ op.name = "ConvertFromVector" =>
          ConvertToVector(repository_, op.h) = op.args[1]
    /\ op.name = "Successor" =>
          ConvertToVector(repository_, op.h) =
              Append(ConvertToVector(repository_, op.args[1]), op.args[2])

\* Successor was applied to the handle of a non-empty sequence while other
\* sequences were interned.
InternerRoundTripWitness ==
    /\ op.name = "Successor"
    /\ op.args[1] # NULL
    /\ op.fresh = 1
    /\ \E a \in Handles :
          a # NULL /\ ~IsPrefixOf(repository_, a, op.h)

\* The records of output state s that are transitions, not final weights.
NonFinal(s) ==
    {k \in 1..Len(output_arcs_[s + 1]) :
        output_arcs_[s + 1][k].nextstate # kNoStateId}

FinalRecords(s) ==
    {k \in 1..Len(output_arcs_[s + 1]) :
        output_arcs_[s + 1][k].nextstate = kNoStateId}

OutputStateIds == 0..(Len(output_arcs_) - 1)

\* C1 (determinism): at every point of a run, and when Determinize has
\* returned, no output state has two transition records with the same
\* input label.
Determinism ==
    \A s \in OutputStateIds :
        \A j \in NonFinal(s), k \in NonFinal(s) :
            j # k => output_arcs_[s + 1][j].ilabel # output_arcs_[s + 1][k].ilabel

\* Determinize has returned, and a state whose input arcs shared a label
\* got its one record for that label.
DeterminismWitness ==
    /\ pc = "done"
    /\ \E j, k \in 1..Len(ifst_.arcs) :
          /\ j # k
          /\ ifst_.arcs[j].src = ifst_.start /\ ifst_.arcs[k].src = ifst_.start
          /\ ifst_.arcs[j].ilabel = ifst_.arcs[k].ilabel
          /\ ifst_.arcs[j].ilabel # 0
          /\ ifst_.arcs[j].nextstate # ifst_.arcs[k].nextstate
    /\ Cardinality(NonFinal(0)) = 1

\* C10 (one output state per canonical subset): at every point of a run no
\* two distinct output states own subsets that SubsetEqual takes for equal,
\* and looking a stored subset up in minimal_hash_ finds its owner's entry
\* and no other.
UniqueOutputState ==
    /\ Len(output_states_) = Len(output_arcs_)
    /\ \A s \in OutputStateIds, t \in OutputStateIds :
          s # t => ~SubsetEqual(output_states_[s + 1], output_states_[t + 1],
                                delta_)
    /\ \A s \in OutputStateIds :
          HashFind(minimal_hash_, output_states_[s + 1], delta_) =
              {[key |-> output_states_[s + 1], val |-> s]}

\* MinimalToStateId found a subset it had stored before: a record leads back
\* to its own state or to an earlier one, while two states differ in
\* nothing but a weight.
UniqueOutputStateWitness ==
    /\ pc = "done"
    /\ \E s \in OutputStateIds :
          \E k \in NonFinal(s) : output_arcs_[s + 1][k].nextstate <= s
    /\ \E s \in OutputStateIds, t \in OutputStateIds :
          /\ s # t
          /\ SubsetEqual(output_states_[s + 1], output_states_[t + 1],
                         MaxWeight + MaxArcs)

\* The states reached from `seen` along epsilon-input arcs of non-Zero
\* weight.
RECURSIVE EpsilonReach(_, _)
EpsilonReach(fst, seen) ==
    LET more == seen \cup
            {fst.arcs[k].nextstate :
                k \in {j \in 1..Len(fst.arcs) :
                          /\ fst.arcs[j].src \in seen
                          /\ fst.arcs[j].ilabel = 0
                          /\ fst.arcs[j].weight # Zero}}
    IN  IF more = seen THEN seen ELSE EpsilonReach(fst, more)

\* The arcs that lie on a cycle of epsilon-input arcs.
OnEpsilonCycle(fst) ==
    {k \in 1..Len(fst.arcs) :
        /\ fst.arcs[k].ilabel = 0
        /\ fst.arcs[k].weight # Zero
        /\ fst.arcs[k].src \in EpsilonReach(fst, {fst.arcs[k].nextstate})}

\* The input has an epsilon cycle, and its epsilon cycles have no net
\* effect: no output label, weight One.
ZeroNetEpsilonCycles(fst) ==
    /\ OnEpsilonCycle(fst) # {}
    /\ \A k \in OnEpsilonCycle(fst) :
          fst.arcs[k].olabel = 0 /\ fst.arcs[k].weight = One

\* The states from which a final state is reached.
RECURSIVE CoReachable(_, _)
CoReachable(fst, seen) ==
    LET more == seen \cup {fst.arcs[k].src :
                              k \in {j \in 1..Len(fst.arcs) :
                                        fst.arcs[j].nextstate \in seen}}
    IN  IF more = seen THEN seen ELSE CoReachable(fst, more)

AllStates(fst) == 0..(Len(fst.final) - 1)

\* Already deterministic: no epsilon input label, at most one arc per state
\* and input label, every state reachable and co-reachable.
DeterministicInput(fst) ==
    /\ \A k \in 1..Len(fst.arcs) : fst.arcs[k].ilabel # 0
    /\ \A j, k \in 1..Len(fst.arcs) :
          (j # k /\ fst.arcs[j].src = fst.arcs[k].src) =>
              fst.arcs[j].ilabel # fst.arcs[k].ilabel
    /\ ReachableFrom(fst.arcs, {fst.start}) = AllStates(fst)
    /\ CoReachable(fst, {q \in AllStates(fst) : Final(fst, q) # Zero}) =
           AllStates(fst)

\* The runs whose termination is checked: with exact weight comparison, the
\* inputs with epsilon cycles of no net effect and the deterministic inputs
\* whose arcs have weight One and output label 1, their final weights One,
\* and Section 8's scenario.  The run is one sequential
\* thread: it takes its next step whenever it has one.
FairInit ==
    /\ Init
    /\ delta_ = 0
    /\ \/ /\ \/ ZeroNetEpsilonCycles(ifst_)
             \/ /\ DeterministicInput(ifst_)
                /\ \A k \in 1..Len(ifst_.arcs) :
                      ifst_.arcs[k].weight = One /\ ifst_.arcs[k].olabel = 1
          /\ \A q \in AllStates(ifst_) : Final(ifst_, q) \in {Zero, One}
       \/ ifst_ = ScenarioInput

FairSpec == FairInit /\ [][Next]_vars /\ WF_vars(Next)

\* ------------------------------------------- EpsilonClosure out of memory
\* EpsilonClosure's pass needs an Entry the memory has no room for:
\* Successor's `new Entry` throws and the process ends, the work-list not
\* empty.
EpsilonClosureExhausts ==
    /\ pc \in {"Initialize", "InitialToStateId"}
    /\ ec_queue # <<>>
    /\ Len(ClosurePop(ifst_, cur_subset, ec_queue, repository_).r) > MaxRepo
    /\ pc' = "crash"
    /\ UNCHANGED <<outVars, lifo_out, expanded, emitted>>
    /\ UNCHANGED <<ifst_, delta_, repository_, output_states_, output_arcs_,
                   minimal_hash_, initial_hash_, queue_, osymbol_or_final_,
                   output_state, all_elems, frame, cur_subset, ec_queue, op>>

\* The runs on the inputs without final state whose one epsilon-input arc is
\* a cycle, whatever it carries, and on the deterministic inputs of FairInit.
ClosureInit ==
    /\ Init
    /\ delta_ = 0
    /\ \/ /\ OnEpsilonCycle(ifst_) # {}
          /\ Cardinality({k \in 1..Len(ifst_.arcs) :
                              ifst_.arcs[k].ilabel = 0}) = 1
          /\ ~ifst_.sorted
          /\ \A q \in AllStates(ifst_) : Final(ifst_, q) = Zero
       \/ /\ DeterministicInput(ifst_)
          /\ \A q \in AllStates(ifst_) : Final(ifst_, q) \in {Zero, One}
          /\ \A k \in 1..Len(ifst_.arcs) :
                ifst_.arcs[k].weight = One /\ ifst_.arcs[k].olabel = 1

ClosureNext ==
    \/ EpsilonClosureStep
    \/ EpsilonClosureExhausts
    \/ InitializeFinish
    \/ DeterminizePop
    \/ DeterminizeReturn
    \/ ProcessTransitionHit
    \/ ProcessTransitionMiss
    \/ InitialToStateIdAbort
    \/ InitialToStateIdFinish

ClosureSpec == ClosureInit /\ [][ClosureNext]_vars /\ WF_vars(ClosureNext)

InClosure == pc \in {"Initialize", "InitialToStateId"}

\* The states EpsilonClosure was seeded with.
SeedStates ==
    IF pc = "Initialize" THEN {ifst_.start}
    ELSE {frame.subset_in[k].state : k \in 1..Len(frame.subset_in)}

\* C6 (epsilon cycle of no net effect): on an input whose epsilon cycles
\* carry no output label and weight One, every EpsilonClosure comes to an
\* end (its work-list empties and the caller goes on), and its subset holds
\* no state twice and every seed state, the start state 0 in Initialize,
\* exactly once.
EpsilonCycleClosure ==
    /\ [](ZeroNetEpsilonCycles(ifst_) /\ InClosure =>
            /\ \A k \in 1..Len(cur_subset) :
                  FindState(cur_subset, cur_subset[k].state) = {k}
            /\ \A q \in SeedStates :
                  Cardinality(FindState(cur_subset, q)) = 1)
    /\ (ZeroNetEpsilonCycles(ifst_) /\ InClosure) ~> ~InClosure

\* Initialize's EpsilonClosure has gone round an epsilon self-loop of weight
\* One on the start state and has emptied its work-list.
EpsilonCycleClosureWitness ==
    /\ pc = "Initialize"
    /\ ec_queue = <<>>
    /\ ZeroNetEpsilonCycles(ifst_)
    /\ \E k \in 1..Len(ifst_.arcs) :
          ifst_.arcs[k] = Arc(ifst_.start, 0, 0, One, ifst_.start)
    /\ Cardinality(FindState(cur_subset, ifst_.start)) = 1

\* ------------------------------- what the input and the output accept
MaxSeqLen == 2          \* length of the input-label sequences compared
MaxPathLen == 3         \* arcs of the input paths compared

LabelSeqs == UNION {[1..n -> 1..MaxILabel] : n \in 0..MaxSeqLen}

\* The semiring sum of a set of weights.
PlusAll(S) ==
    IF S \ {Zero} = {} THEN Zero
    ELSE CHOOSE m \in S \ {Zero} : \A x \in S \ {Zero} : m <= x

\* d[q] is the sum of the weights of the paths read so far that end in q;
\* one more epsilon-input arc.
RelaxEpsilon(fst, d) ==
    [q \in AllStates(fst) |->
        PlusAll({d[q]} \cup
                {Times(d[fst.arcs[k].src], fst.arcs[k].weight) :
                    k \in {j \in 1..Len(fst.arcs) :
                              /\ fst.arcs[j].nextstate = q
                              /\ fst.arcs[j].ilabel = 0}})]

RECURSIVE EpsilonDist(_, _, _)
EpsilonDist(fst, d, n) ==
    IF n = 0 THEN d ELSE EpsilonDist(fst, RelaxEpsilon(fst, d), n - 1)

\* One arc of input label l.
LabelDist(fst, d, l) ==
    [q \in AllStates(fst) |->
        PlusAll({Times(d[fst.arcs[k].src], fst.arcs[k].weight) :
                    k \in {j \in 1..Len(fst.arcs) :
                              /\ fst.arcs[j].nextstate = q
                              /\ fst.arcs[j].ilabel = l}})]

RECURSIVE SeqDist(_, _, _, _)
SeqDist(fst, d, seq, i) ==
    IF i > Len(seq) THEN d
    ELSE SeqDist(fst,
                 EpsilonDist(fst, LabelDist(fst, d, seq[i]), Len(fst.final)),
                 seq, i + 1)

\* The semiring sum over the accepting input paths whose input labels,
\* epsilons dropped, are seq; Zero when the input does not accept seq.
InputWeight(fst, seq) ==
    LET d0 == [q \in AllStates(fst) |-> IF q = fst.start THEN One ELSE Zero]
        d == SeqDist(fst, EpsilonDist(fst, d0, Len(fst.final)), seq, 1)
    IN  PlusAll({Times(d[q], Final(fst, q)) : q \in AllStates(fst)})

\* The output path of seq from output state s: the record of each label in
\* turn, then the final record.
RECURSIVE OutputPath(_, _, _, _, _)
OutputPath(s, seq, i, weight, string) ==
    LET recs == output_arcs_[s + 1]
        next == IF i > Len(seq) THEN FinalRecords(s)
                ELSE {k \in NonFinal(s) : recs[k].ilabel = seq[i]}
    IN  IF next = {}
        THEN [ok |-> FALSE, weight |-> Zero, string |-> <<>>]
        ELSE LET rec == recs[CHOOSE k \in next : TRUE]
                 w == Times(weight, rec.weight)
                 str == string \o ConvertToVector(repository_, rec.string)
             IN  IF i > Len(seq)
                 THEN [ok |-> TRUE, weight |-> w, string |-> str]
                 ELSE OutputPath(rec.nextstate, seq, i + 1, w, str)

\* The input paths from the start state, as sequences of arc indices.
InputPaths(fst) ==
    {p \in UNION {[1..n -> 1..Len(fst.arcs)] : n \in 0..MaxPathLen} :
        /\ p # <<>> => fst.arcs[p[1]].src = fst.start
        /\ \A k \in 1..(Len(p) - 1) :
              fst.arcs[p[k]].nextstate = fst.arcs[p[k + 1]].src}

PathEnd(fst, p) ==
    IF p = <<>> THEN fst.start ELSE fst.arcs[p[Len(p)]].nextstate

PathILabels(fst, p) ==
    LET NotEpsilon(l) == l # 0
    IN  SelectSeq([k \in 1..Len(p) |-> fst.arcs[p[k]].ilabel], NotEpsilon)

PathOLabels(fst, p) ==
    LET NotEpsilon(l) == l # 0
    IN  SelectSeq([k \in 1..Len(p) |-> fst.arcs[p[k]].olabel], NotEpsilon)

RECURSIVE PathWeight(_, _, _)
PathWeight(fst, p, k) ==
    IF k > Len(p) THEN Final(fst, PathEnd(fst, p))
    ELSE Times(fst.arcs[p[k]].weight, PathWeight(fst, p, k + 1))

\* C2 (weight-sum equivalence): when Determinize has returned, every
\* input-label sequence the input accepts has its output path, and the
\* Times-product of the weights along it, the final weight included, equals
\* (within delta) the Plus over the accepting input paths of that sequence.
WeightSumEquivalence ==
    pc = "done" =>
        \A seq \in LabelSeqs :
            InputWeight(ifst_, seq) # Zero =>
                LET o == OutputPath(0, seq, 1, One, <<>>)
                IN  /\ o.ok
                    /\ ApproxEqual(o.weight, InputWeight(ifst_, seq), delta_)

\* C3 (string correctness): when Determinize has returned, for every
\* accepted input-label sequence the strings along its output path, the
\* final record's last, concatenate to the output labels of an accepting
\* input path of that sequence whose weight is the best one.
StringCorrectness ==
    pc = "done" =>
        \A seq \in LabelSeqs :
            InputWeight(ifst_, seq) # Zero =>
                LET o == OutputPath(0, seq, 1, One, <<>>)
                IN  /\ o.ok
                    /\ \E p \in InputPaths(ifst_) :
                          /\ PathILabels(ifst_, p) = seq
                          /\ PathWeight(ifst_, p, 1) = InputWeight(ifst_, seq)
                          /\ PathOLabels(ifst_, p) = o.string

\* C4 (Section 8's scenario): on the two a-arcs 0 -> 1 with outputs X and Y
\* the run does not abort, and when it has returned output state 0 has one
\* transition, of label a, weight Plus(1, 2) and string X, to a state that
\* is final.
ScenarioMerged ==
    ifst_ = ScenarioInput =>
        /\ pc # "abort"
        /\ pc = "done" =>
              /\ Cardinality(NonFinal(0)) = 1
              /\ \A k \in NonFinal(0) :
                    LET rec == output_arcs_[1][k]
                    IN  /\ rec.ilabel = 1
                        /\ rec.weight = Plus(1, 2)
                        /\ ConvertToVector(repository_, rec.string) = <<1>>
                        /\ FinalRecords(rec.nextstate) # {}

\* f maps the input's states one-to-one onto the output's, start to start,
\* final weights and arcs (label, output label, weight, target) alike.
Isomorphism(f) ==
    /\ \A p, q \in AllStates(ifst_) : p # q => f[p] # f[q]
    /\ {f[q] : q \in AllStates(ifst_)} = OutputStateIds
    /\ f[ifst_.start] = 0
    /\ \A q \in AllStates(ifst_) :
          /\ Cardinality(FinalRecords(f[q])) =
                 IF Final(ifst_, q) = Zero THEN 0 ELSE 1
          /\ \A k \in FinalRecords(f[q]) :
                /\ output_arcs_[f[q] + 1][k].weight = Final(ifst_, q)
                /\ output_arcs_[f[q] + 1][k].string = NULL
          /\ Cardinality(NonFinal(f[q])) = Len(ArcsFrom(ifst_, q))
    /\ \A j \in 1..Len(ifst_.arcs) :
          LET arc == ifst_.arcs[j]
          IN  \E k \in NonFinal(f[arc.src]) :
                LET rec == output_arcs_[f[arc.src] + 1][k]
                IN  /\ rec.ilabel = arc.ilabel
                    /\ rec.weight = arc.weight
                    /\ ConvertToVector(repository_, rec.string) =
                           IF arc.olabel = 0 THEN <<>> ELSE <<arc.olabel>>
                    /\ rec.nextstate = f[arc.nextstate]

\* C5 (idempotence): when Determinize has returned on an input that is
\* already deterministic, the output is isomorphic to the input.
Idempotence ==
    (DeterministicInput(ifst_) /\ pc = "done") =>
        \E f \in [AllStates(ifst_) -> OutputStateIds] : Isomorphism(f)

\* No path of arcs leads from a state back to itself.
Acyclic(fst) ==
    \A k \in 1..Len(fst.arcs) :
        fst.arcs[k].src \notin ReachableFrom(fst.arcs, {fst.arcs[k].nextstate})

\* C7 (driver termination): on an acyclic input, whose canonical subsets
\* are finitely many, the main loop of Determinize comes to an empty queue
\* and returns.
DriverTermination ==
    (pc = "Initialize" /\ Acyclic(ifst_)) ~> (pc = "done")

\* The run has a next step wherever it has neither returned nor aborted.
RunsOn == pc \in {"done", "abort", "crash"} \/ ENABLED Next

\* The record ProcessTransition has just appended to output_state's list.
NewRecord ==
    output_arcs_'[output_state + 1][Len(output_arcs_'[output_state + 1])]

\* rec combines the local pair with the residual pair of the entry ent.
Combines(rec, local_weight, local_string, ent) ==
    /\ rec.weight = Times(local_weight, ent.weight)
    /\ ConvertToVector(repository_', rec.string) =
           ConvertToVector(repository_', local_string) \o
           ConvertToVector(repository_', ent.string)

\* C20 (transition combination): the record ProcessTransition appends has
\* weight Times(local weight, residual weight) and string
\* Concatenate(local string, residual string): local is what NormalizeSubset
\* took out of the merged candidate subset, residual is what
\* InitialToStateId has for the destination (the entry it found in
\* initial_hash_, or the entry it has just stored there).
TransitionCombination ==
    [][/\ (pc = "ProcessTransitions" /\ pc' \in {"Determinize", "ProcessTransitions"}) =>
            LET n == TransitionFront(all_elems, repository_)
            IN  \E e \in HashFind(initial_hash_, n.elems, delta_) :
                    Combines(NewRecord, n.tot_weight, n.common_str, e.val)
       /\ (pc = "InitialToStateId" /\ pc' \in {"Determinize", "ProcessTransitions"}) =>
            \A e \in initial_hash_' \ initial_hash_ :
                Combines(NewRecord, frame.tot_weight, frame.common_str, e.val)
      ]_vars

\* An input state that is final or has an arc with an input label.
FinalOrEmitting(fst, q) ==
    \/ Final(fst, q) # Zero
    \/ \E k \in 1..Len(fst.arcs) :
          fst.arcs[k].src = q /\ fst.arcs[k].ilabel # 0

\* EpsilonClosure has emptied its work-list: ConvertToMinimal is called next,
\* on cur_subset.
ClosureDone == InClosure /\ ec_queue = <<>>

\* C17 (ConvertToMinimal): of the subset it is given ConvertToMinimal keeps,
\* in their order and with their string and weight, exactly the Elements
\* whose state is final or has an arc with a non-epsilon input label; a
\* final state without arcs is kept.
ConvertToMinimalKeeps ==
    ClosureDone =>
        LET Kept(elem) == FinalOrEmitting(ifst_, elem.state)
        IN  ConvertToMinimal(ifst_, osymbol_or_final_, cur_subset).subset =
                SelectSeq(cur_subset, Kept)

\* NormalizeSubset's two assertions hold of elems.
Normalizable(elems) ==
    /\ elems # <<>>
    /\ PlusAll({elems[k].weight : k \in 1..Len(elems)}) # Zero

\* C18 (precondition validity): every subset NormalizeSubset is called with,
\* by ProcessTransition after MakeSubsetUnique and by InitialToStateId after
\* EpsilonClosure and ConvertToMinimal, is non-empty and its weights do not
\* sum to Zero.
PreconditionValidity ==
    /\ (pc = "ProcessTransitions" /\ all_elems # <<>>) =>
          Normalizable(MakeSubsetUnique(repository_, ThisSubset(all_elems)))
    /\ (pc = "InitialToStateId" /\ ec_queue = <<>>) =>
          Normalizable(ClosedMinimal.subset)

\* p is the longest common prefix of the sequences in `strings`.
IsLongestCommonPrefix(p, strings) ==
    /\ \A v \in strings : Len(v) >= Len(p) /\ SubSeq(v, 1, Len(p)) = p
    /\ \/ \E v \in strings : Len(v) = Len(p)
       \/ \E v, w \in strings : v[Len(p) + 1] # w[Len(p) + 1]

\* What NormalizeSubset promises of its result n for the subset elems.
NormalizePost(r, elems, n) ==
    LET W == n.tot_weight
        P == ConvertToVector(n.r, n.common_str)
        Old(k) == ConvertToVector(r, elems[k].string)
        New(k) == ConvertToVector(n.r, n.elems[k].string)
    IN  /\ n.ok
        /\ W = PlusAll({elems[k].weight : k \in 1..Len(elems)})
        /\ IsLongestCommonPrefix(P, {Old(k) : k \in 1..Len(elems)})
        /\ Len(n.elems) = Len(elems)
        /\ \A k \in 1..Len(elems) :
              /\ n.elems[k].state = elems[k].state
              /\ n.elems[k].weight = Divide(elems[k].weight, W)
              /\ Times(W, n.elems[k].weight) = elems[k].weight
              /\ P \o New(k) = Old(k)
        /\ IsLongestCommonPrefix(<<>>, {New(k) : k \in 1..Len(elems)})

\* The subset ProcessTransition hands to NormalizeSubset.
Candidate == MakeSubsetUnique(repository_, ThisSubset(all_elems))

\* C19 (NormalizeSubset postcondition): at both calls, of a non-empty subset
\* whose weights do not sum to Zero, NormalizeSubset returns the Plus of the
\* weights and the longest common prefix of the strings, and leaves each
\* Element its state, its weight divided by the sum and its string without
\* the prefix, the new strings having no common prefix.
NormalizeSubsetPost ==
    /\ (pc = "ProcessTransitions" /\ all_elems # <<>> /\ Normalizable(Candidate)) =>
          NormalizePost(repository_, Candidate,
                        NormalizeSubset(repository_, Candidate))
    /\ (pc = "InitialToStateId" /\ ec_queue = <<>>
            /\ Normalizable(ClosedMinimal.subset)) =>
          NormalizePost(repository_, ClosedMinimal.subset, ClosedNormal)

\* ProcessTransition normalizes two Elements whose strings share a label and
\* whose weights sum to more than One.
NormalizeSubsetPostWitness ==
    /\ pc = "ProcessTransitions" /\ all_elems # <<>>
    /\ Len(Candidate) = 2
    /\ LET n == NormalizeSubset(repository_, Candidate)
       IN  /\ n.ok
           /\ n.common_str # NULL
           /\ n.tot_weight # One
           /\ n.elems[1].weight = One

\* ------------------------------------------------------- Output's claims
\* The inner loop of Output passes one record.
RecordStep == AtRecord /\ iter' = iter + 1

\* The label sequence of the record's string, as the interner holds it.
TrueString(rec) == ConvertToVector(repository_, rec.string)

\* C11 (compact output): Output to the compact acceptor makes one state per
\* output state, same numbers, start state 0; a non-final record of state s
\* becomes one arc s -> nextstate with ilabel = olabel = the record's ilabel
\* and weight (record weight, label sequence of the record's string); a
\* final record becomes the final weight (weight, label sequence) of s;
\* nothing else is emitted.
CompactOutput ==
    [][/\ (pc = "done" /\ pc' = "OutputCompact") =>
            ofst' = [start |-> 0, nstates |-> Len(output_arcs_),
                     arcs |-> <<>>,
                     final |-> [s \in 1..Len(output_arcs_) |->
                                   CompactWeight(Zero, <<>>)]]
       /\ (pc = "OutputCompact" /\ ~RecordStep) => ofst' = ofst
       /\ (pc = "OutputCompact" /\ RecordStep) =>
            LET rec == ThisRecord
                weight == CompactWeight(rec.weight, TrueString(rec))
            IN  /\ ofst'.nstates = ofst.nstates /\ ofst'.start = ofst.start
                /\ IF rec.nextstate = kNoStateId
                   THEN /\ ofst'.arcs = ofst.arcs
                        /\ ofst'.final =
                               [ofst.final EXCEPT ![this_state + 1] = weight]
                   ELSE /\ ofst'.final = ofst.final
                        /\ ofst'.arcs =
                               Append(ofst.arcs,
                                   [src |-> this_state, ilabel |-> rec.ilabel,
                                    olabel |-> rec.ilabel, weight |-> weight,
                                    nextstate |-> rec.nextstate])
      ]_vars

Max(a, b) == IF a >= b THEN a ELSE b

\* The arcs `new` are a chain from state `from` through the `fresh` states
\* numbered first, first + 1, ...
IsChain(new, from, first, fresh) ==
    /\ new # <<>> => new[1].src = from
    /\ \A j \in 1..Len(new) :
          /\ j <= fresh => new[j].nextstate = first + j - 1
          /\ j > 1 => new[j].src = new[j - 1].nextstate

\* C12 (expanded output): a non-final record whose string has length L
\* becomes a chain of max(L, 1) arcs from its state to its destination
\* through max(L - 1, 0) fresh states, the first arc with the record's ilabel
\* and weight, the later arcs with ilabel 0 and weight One, the olabels
\* spelling the string (olabel 0 when L = 0); a final record becomes L
\* epsilon-input arcs through L fresh states, the record's weight on the
\* first and final weight One on the last state, or the final weight of its
\* own state when L = 0.
ExpandedOutput ==
    [][(pc = "OutputExpanded" /\ RecordStep) =>
          LET rec == ThisRecord
              seq == TrueString(rec)
              L == Len(seq)
              new == SubSeq(ofst'.arcs, Len(ofst.arcs) + 1, Len(ofst'.arcs))
              fresh == ofst'.nstates - ofst.nstates
              is_final == rec.nextstate = kNoStateId
          IN  /\ SubSeq(ofst'.arcs, 1, Len(ofst.arcs)) = ofst.arcs
              /\ ofst'.start = ofst.start
              /\ Len(new) = IF is_final THEN L ELSE Max(L, 1)
              /\ fresh = IF is_final THEN L ELSE Max(L - 1, 0)
              /\ IsChain(new, this_state, ofst.nstates, fresh)
              /\ ~is_final => new[Len(new)].nextstate = rec.nextstate
              /\ \A j \in 1..Len(new) :
                    /\ new[j].ilabel = IF j = 1 /\ ~is_final THEN rec.ilabel
                                       ELSE 0
                    /\ new[j].weight = IF j = 1 THEN rec.weight ELSE One
                    /\ new[j].olabel = IF L = 0 THEN 0 ELSE seq[j]
              /\ ofst'.final =
                     IF ~is_final
                     THEN ofst.final \o [j \in 1..fresh |-> Zero]
                     ELSE IF L = 0
                     THEN [ofst.final EXCEPT ![this_state + 1] = rec.weight]
                     ELSE ofst.final \o
                              [j \in 1..fresh |-> IF j = fresh THEN One
                                                  ELSE Zero]
      ]_vars

\* C13 (destructive output): with destroy = true Output emits, record by
\* record and in either mode, what it emits with destroy = false from the
\* same records, and comes to its end.
DestructiveEquivalence ==
    [][(AtRecord /\ destroy) =>
          /\ pc' # "crash"
          /\ ofst' = IF pc = "OutputCompact"
                     THEN EmitCompact(ofst, this_state, ThisRecord,
                                      TrueString(ThisRecord))
                     ELSE EmitExpanded(ofst, this_state, ThisRecord,
                                       TrueString(ThisRecord))
      ]_vars

\* C14 (handle lifetime): through construction and determinization no
\* handle is released, and whenever Output is about to convert a record's
\* string handle to its label sequence, Destroy has not released the handle.
HandleLifetime ==
    /\ pc \in {"Initialize", "Determinize", "ProcessTransitions",
               "InitialToStateId", "done"} => released = {}
    /\ AtRecord => ThisRecord.string \notin released

\* The epsilon-input paths from the start state.
EpsilonPaths(fst) ==
    {p \in InputPaths(fst) : \A k \in 1..Len(p) : fst.arcs[p[k]].ilabel = 0}

\* The Times-product of the arcs' weights along p.
RECURSIVE ArcsWeight(_, _, _)
ArcsWeight(fst, p, k) ==
    IF k > Len(p) THEN One
    ELSE Times(fst.arcs[p[k]].weight, ArcsWeight(fst, p, k + 1))

\* Compare on (weight, label sequence) pairs.
CompareSeq(a_w, a_vec, b_w, b_vec) ==
    IF CompareWeight(a_w, b_w) # 0 THEN CompareWeight(a_w, b_w)
    ELSE IF Len(a_vec) < Len(b_vec) THEN -1
    ELSE IF Len(a_vec) > Len(b_vec) THEN 1
    ELSE CompareVec(a_vec, b_vec, 1)

\* An epsilon path from the start state to q whose (weight, output labels)
\* no other such path exceeds.
BestEpsilonPath(fst, q) ==
    CHOOSE p \in EpsilonPaths(fst) :
        /\ PathEnd(fst, p) = q
        /\ \A p2 \in EpsilonPaths(fst) :
              PathEnd(fst, p2) = q =>
                  CompareSeq(ArcsWeight(fst, p, 1), PathOLabels(fst, p),
                             ArcsWeight(fst, p2, 1), PathOLabels(fst, p2)) >= 0

\* Initialize has just returned with its output state 0.
Initialized ==
    pc = "Determinize" /\ queue_ = <<0>> /\ output_arcs_ = <<<<>>>>

Renumbering(f, n) ==
    /\ f[0] = 0
    /\ \A p, q \in 0..(n - 1) : p # q => f[p] # f[q]

\* rec with its destination renumbered by f.
Renumbered(rec, f) ==
    [rec EXCEPT !.nextstate = IF @ = kNoStateId THEN @ ELSE f[@]]

\* C15 (queue-order independence): when a run with LIFO pops and a run with
\* any pop order on the same input have both returned, their outputs are
\* the same up to a renumbering of the output states other than state 0.
QueueOrderIndependence ==
    (pc = "done" /\ lifo_out.taken) =>
        LET first == lifo_out.arcs
            second == Records(output_arcs_, repository_)
            n == Len(first)
        IN  /\ Len(second) = n
            /\ \E f \in [0..(n - 1) -> 0..(n - 1)] :
                  /\ Renumbering(f, n)
                  /\ \A s \in 0..(n - 1) :
                        /\ Len(second[f[s] + 1]) = Len(first[s + 1])
                        /\ {second[f[s] + 1][k] :
                                k \in 1..Len(second[f[s] + 1])}
                           = {Renumbered(first[s + 1][k], f) :
                                k \in 1..Len(first[s + 1])}

\* ---------------------------------------------------- ProcessFinal's claim
\* The indices of the Elements of subset whose state is final in the input.
FinalElems(subset) ==
    {k \in 1..Len(subset) : Final(ifst_, subset[k].state) # Zero}

\* The main loop takes the output state at the back of the queue.
PopStep == pc = "Determinize" /\ queue_ # <<>>

\* What the step has appended to the records of output state s.
Appended(s) ==
    SubSeq(output_arcs_'[s + 1], Len(output_arcs_[s + 1]) + 1,
           Len(output_arcs_'[s + 1]))

\* C21 (ProcessFinal): the output state taken from the queue gets a final
\* record if and only if an Element of its subset has a non-Zero final weight
\* in the input; the record has the final-marker as nextstate and the
\* Compare-greatest pair (final weight of the Element's state, Element's
\* string) over those Elements.
FinalRecord ==
    [][PopStep =>
          LET s == queue_[Len(queue_)]
              subset == output_states_[s + 1]
              new == Appended(s)
          IN  IF FinalElems(subset) = {} THEN new = <<>>
              ELSE /\ Len(new) = 1
                   /\ new[1].nextstate = kNoStateId
                   /\ \E k \in FinalElems(subset) :
                         /\ new[1].weight = Final(ifst_, subset[k].state)
                         /\ new[1].string = subset[k].string
                         /\ \A j \in FinalElems(subset) :
                               Compare(repository_,
                                       new[1].weight, new[1].string,
                                       Final(ifst_, subset[j].state),
                                       subset[j].string) >= 0
      ]_vars

\* -------------------------------------------------- EpsilonClosure's claims
\* The subset EpsilonClosure was called with.
SeedElems ==
    IF pc = "Initialize" THEN StartSubset(ifst_) ELSE frame.subset_in

\* The paths of epsilon-input arcs of non-Zero weight that leave state q.
EpsilonPathsFrom(fst, q) ==
    {p \in UNION {[1..n -> 1..Len(fst.arcs)] : n \in 0..MaxPathLen} :
        /\ p # <<>> => fst.arcs[p[1]].src = q
        /\ \A k \in 1..Len(p) :
              fst.arcs[p[k]].ilabel = 0 /\ fst.arcs[p[k]].weight # Zero
        /\ \A k \in 1..(Len(p) - 1) :
              fst.arcs[p[k]].nextstate = fst.arcs[p[k + 1]].src}

\* The (weight, label sequence) pairs with which state t is reached: the
\* seed pair of t and, for every seed and epsilon path from it to t, the
\* seed's weight times the arcs' weights and the seed's string extended by
\* the arcs' output labels.
ReachedPairs(t) ==
    {[w |-> Times(SeedElems[i].weight, ArcsWeight(ifst_, p, 1)),
      v |-> ConvertToVector(repository_, SeedElems[i].string)
                \o PathOLabels(ifst_, p)] :
        <<i, p>> \in
            {ip \in (1..Len(SeedElems)) \X
                    UNION {EpsilonPathsFrom(ifst_, SeedElems[j].state) :
                               j \in 1..Len(SeedElems)} :
                /\ ip[2] \in EpsilonPathsFrom(ifst_, SeedElems[ip[1]].state)
                /\ t = IF ip[2] = <<>> THEN SeedElems[ip[1]].state
                       ELSE ifst_.arcs[ip[2][Len(ip[2])]].nextstate}}

\* C22 (EpsilonClosure result): on an input whose epsilon-input arcs form no
\* cycle, the subset EpsilonClosure ends with holds exactly the seed states
\* and the states reached from them over epsilon-input arcs, each once, and
\* each Element's (weight, string) is the Compare-greatest of the pairs with
\* which its state is reached.
ClosureResult ==
    (ClosureDone /\ OnEpsilonCycle(ifst_) = {}) =>
        /\ {cur_subset[k].state : k \in 1..Len(cur_subset)} =
               {t \in AllStates(ifst_) : ReachedPairs(t) # {}}
        /\ \A k \in 1..Len(cur_subset) :
              LET e == cur_subset[k]
                  v == ConvertToVector(repository_, e.string)
              IN  /\ FindState(cur_subset, e.state) = {k}
                  /\ [w |-> e.weight, v |-> v] \in ReachedPairs(e.state)
                  /\ \A c \in ReachedPairs(e.state) :
                        CompareSeq(e.weight, v, c.w, c.v) >= 0

\* EpsilonClosure has ended on a subset one of whose states was reached with
\* two different pairs, the second better than the first.
ClosureResultWitness ==
    /\ ClosureDone
    /\ OnEpsilonCycle(ifst_) = {}
    /\ \E k \in 1..Len(cur_subset) :
          /\ Cardinality(ReachedPairs(cur_subset[k].state)) >= 2
          /\ \E j \in 1..Len(ifst_.arcs) :
                /\ ifst_.arcs[j].nextstate = cur_subset[k].state
                /\ ifst_.arcs[j].ilabel = 0
                /\ \E i \in 1..(j - 1) :
                      /\ ifst_.arcs[i].ilabel = 0
                      /\ ifst_.arcs[i].src = ifst_.arcs[j].src
                      /\ ifst_.arcs[i].nextstate = ifst_.arcs[j].nextstate
                      /\ CompareSeq(ifst_.arcs[j].weight,
                                    PathOLabels(ifst_, <<j>>),
                                    ifst_.arcs[i].weight,
                                    PathOLabels(ifst_, <<i>>)) = 1

\* C23 (EpsilonClosure termination): whatever the input's epsilon cycles
\* carry, the work-list of every EpsilonClosure becomes empty.
ClosureTermination ==
    (pc \in {"Initialize", "InitialToStateId"}) ~> (ec_queue = <<>>)

\* ---------------------------------------------------------- Compare's claim
\* The first position at which two vectors of equal length differ.
FirstDifference(a_vec, b_vec) ==
    CHOOSE i \in 1..Len(a_vec) :
        /\ a_vec[i] # b_vec[i]
        /\ \A j \in 1..(i - 1) : a_vec[j] = b_vec[j]

\* What Compare is to return for the pairs (a_w, a_vec) and (b_w, b_vec).
CompareSpec(a_w, a_vec, b_w, b_vec) ==
    IF CompareWeight(a_w, b_w) # 0 THEN CompareWeight(a_w, b_w)
    ELSE IF a_vec = b_vec THEN 0
    ELSE IF Len(a_vec) # Len(b_vec)
         THEN IF Len(a_vec) < Len(b_vec) THEN -1 ELSE 1
    ELSE IF a_vec[FirstDifference(a_vec, b_vec)]
                < b_vec[FirstDifference(a_vec, b_vec)] THEN -1 ELSE 1

\* Compare comes to its assert(0): different handles, the same weight, the
\* same sequence.
CompareAsserts(r, a_w, a_str, b_w, b_str) ==
    /\ CompareWeight(a_w, b_w) = 0
    /\ a_str # b_str
    /\ ConvertToVector(r, a_str) = ConvertToVector(r, b_str)

\* C26 (Compare): on the pairs of a repository Compare returns the weight
\* comparison when that is not 0, and on a weight tie 0 exactly for the same
\* sequence, else the shorter sequence below the longer and sequences of one
\* length by their first difference; Compare(a, b) = -Compare(b, a); it is
\* transitive; and its assert is not reached.
CompareOrder ==
    /\ \A a_w \in GarbageWeights, b_w \in GarbageWeights :
          \A a \in Handles, b \in Handles :
              /\ Compare(repository_, a_w, a, b_w, b) =
                     CompareSpec(a_w, ConvertToVector(repository_, a),
                                 b_w, ConvertToVector(repository_, b))
              /\ Compare(repository_, a_w, a, b_w, b) =
                     -Compare(repository_, b_w, b, a_w, a)
              /\ ~CompareAsserts(repository_, a_w, a, b_w, b)
    /\ \A w \in GarbageWeights : \A a \in Handles, b \in Handles, c \in Handles :
          (/\ Compare(repository_, w, a, w, b) >= 0
           /\ Compare(repository_, w, b, w, c) >= 0) =>
              Compare(repository_, w, a, w, c) >= 0
    /\ op.name = "Compare" =>
          op.h = CompareSpec(op.args[1],
                             ConvertToVector(repository_, op.args[2]),
                             op.args[3],
                             ConvertToVector(repository_, op.args[4]))

\* Compare has been called on a weight tie with two sequences of the same
\* length that differ in their second label only.
CompareOrderWitness ==
    /\ op.name = "Compare"
    /\ op.args[1] = op.args[3]
    /\ op.h = -1
    /\ LET a_vec == ConvertToVector(repository_, op.args[2])
           b_vec == ConvertToVector(repository_, op.args[4])
       IN  /\ Len(a_vec) = 2 /\ Len(b_vec) = 2
           /\ a_vec[1] = b_vec[1]
           /\ a_vec[2] < b_vec[2]

\* ------------------------------------------- the sorted short cut's claim
MaxClosurePops == 6     \* passes of EpsilonClosure's while loop followed

\* EpsilonClosure from (cur, queue) on, for at most n passes of its loop.
RECURSIVE ClosureRun(_, _, _, _, _)
ClosureRun(fst, cur, queue, r, n) ==
    IF queue = <<>> \/ n = 0 THEN [cur |-> cur, queue |-> queue, r |-> r]
    ELSE LET c == ClosurePop(fst, cur, queue, r)
         IN  ClosureRun(fst, c.cur, c.queue, c.r, n - 1)

\* A state of the input with an epsilon-input arc before a labelled one.
MixedStates(fst) ==
    {fst.arcs[j].src : j \in {i \in 1..Len(fst.arcs) :
        /\ fst.arcs[i].ilabel = 0
        /\ \E k \in (i + 1)..Len(fst.arcs) :
              fst.arcs[k].src = fst.arcs[i].src /\ fst.arcs[k].ilabel # 0}}

\* C24 (sorted short cut): on an input whose arcs are in ascending order of
\* input label at every state, EpsilonClosure goes on from where it is to
\* the same subset (and queue and repository) whether the sorted property
\* is known, the scan stopping at the first labelled arc, or not known.
SortedShortCircuit ==
    (InClosure /\ IsILabelSorted(ifst_.arcs)) =>
        ClosureRun([ifst_ EXCEPT !.sorted = TRUE], cur_subset, ec_queue,
                   repository_, MaxClosurePops)
        = ClosureRun([ifst_ EXCEPT !.sorted = FALSE], cur_subset, ec_queue,
                     repository_, MaxClosurePops)

\* An EpsilonClosure with the property known has ended with more Elements
\* than it was seeded with, one of them at a state whose scan stopped at a
\* labelled arc.
SortedShortCircuitWitness ==
    /\ InClosure
    /\ ifst_.sorted
    /\ ec_queue = <<>>
    /\ Len(cur_subset) > Len(SeedElems)
    /\ \E k \in 1..Len(cur_subset) : cur_subset[k].state \in MixedStates(ifst_)

\* ------------------------------------------------ MakeSubsetUnique's claim
MaxRun == 3             \* Elements of the subsets MakeSubsetUnique is tried on

\* The subset is in non-decreasing order of state.
SortedByState(subset) ==
    \A j, k \in 1..Len(subset) : j < k => subset[j].state <= subset[k].state

\* What MakeSubsetUnique promises of its result out for the subset in.
MakeSubsetUniquePost(r, in, out) ==
    /\ \A j, k \in 1..Len(out) : j < k => out[j].state < out[k].state
    /\ {out[k].state : k \in 1..Len(out)} = {in[k].state : k \in 1..Len(in)}
    /\ \A k \in 1..Len(out) :
          /\ \E j \in 1..Len(in) : in[j] = out[k]
          /\ \A j \in 1..Len(in) :
                in[j].state = out[k].state =>
                    Compare(r, out[k].weight, out[k].string,
                            in[j].weight, in[j].string) >= 0

\* The subsets sorted by state of up to MaxRun of the given Elements.
SortedSubsetsOf(elems) ==
    {subset \in UNION {[1..n -> elems] : n \in 0..MaxRun} :
        SortedByState(subset)}

\* The run of all_elems ProcessTransition hands to MakeSubsetUnique.
ThisRun == ThisSubset(all_elems)

\* C25 (MakeSubsetUnique): of a subset in non-decreasing order of state,
\* MakeSubsetUnique leaves the states in strictly ascending order, exactly
\* the states of the subset, and at each state the Compare-greatest of the
\* subset's Elements with that state.  This is so at every call by
\* ProcessTransition and for every subset sorted by state of up to MaxRun of
\* the Elements of that call.
MakeSubsetUniqueResult ==
    (pc = "ProcessTransitions" /\ all_elems # <<>>) =>
        /\ SortedByState(ThisRun)
        /\ MakeSubsetUniquePost(repository_, ThisRun,
                                MakeSubsetUnique(repository_, ThisRun))
        /\ \A subset \in SortedSubsetsOf(
                              {ThisRun[k] : k \in 1..Len(ThisRun)}) :
              MakeSubsetUniquePost(repository_, subset,
                                   MakeSubsetUnique(repository_, subset))

\* ProcessTransition calls MakeSubsetUnique with two Elements of one state,
\* the second the Compare-greater, and one Element comes out.
MakeSubsetUniqueResultWitness ==
    /\ pc = "ProcessTransitions" /\ all_elems # <<>>
    /\ Len(ThisRun) = 2
    /\ ThisRun[1].state = ThisRun[2].state
    /\ Compare(repository_, ThisRun[2].weight, ThisRun[2].string,
               ThisRun[1].weight, ThisRun[1].string) = 1
    /\ MakeSubsetUnique(repository_, ThisRun) = <<ThisRun[2]>>

\* ------------------------------------------------ the initial cache's claim
\* What InitialToStateId can return for subset_in on the path that does not
\* find it in initial_hash_: the id MinimalToStateId gives for the closed,
\* minimal, normalized subset, and, since that path assigns neither
\* *remaining_weight nor *common_prefix, what the caller's variables held.
MissPathReturns(r, subset_in) ==
    LET c == ClosureRun(ifst_, subset_in, subset_in, r, MaxClosurePops)
        m == ConvertToMinimal(ifst_, osymbol_or_final_, c.cur)
        n == NormalizeSubset(c.r, m.subset)
    IN  IF c.queue # <<>> THEN {}
        ELSE IF ~m.ok THEN {}
        ELSE IF ~n.ok THEN {}
        ELSE {Element(ans, str, w) :
                 ans \in MinimalToStateId(minimal_hash_, n.elems,
                                          Len(output_arcs_), delta_),
                 str \in GarbageHandles(n.r), w \in GarbageWeights}

\* The step is a ProcessTransition whose InitialToStateId found the subset
\* in initial_hash_.
HitStep == pc = "ProcessTransitions" /\ pc' # "InitialToStateId"

\* C27 (initial-cache transparency): a call of InitialToStateId that finds
\* its subset in initial_hash_ returns the state id, remaining weight and
\* remaining string that the other path would return for the subset at that
\* moment, creates no output state and pushes nothing on the queue.
InitialCacheTransparency ==
    [][HitStep =>
          LET front == TransitionFront(all_elems, repository_)
          IN  /\ \A e \in HashFind(initial_hash_, front.elems, delta_) :
                    \A miss \in MissPathReturns(front.r, front.elems) :
                        e.val = miss
              /\ output_states_' = output_states_
              /\ queue_' = queue_
      ]_vars

\* ------------------------------------------------- the work queue's claim
\* The output states created so far and those on the work queue.
Created == 0..(Len(output_states_) - 1)
Queued == {queue_[k] : k \in 1..Len(queue_)}

\* Every output state is either on the queue, once, or expanded; when
\* Determinize has returned none is on the queue; a final record comes
\* before the transition records of its state.
LifecycleState ==
    /\ Len(output_arcs_) = Len(output_states_)
    /\ \A j, k \in 1..Len(queue_) : j # k => queue_[j] # queue_[k]
    /\ Queued \cap expanded = {}
    /\ Queued \cup expanded = Created
    /\ pc = "done" => (queue_ = <<>> /\ expanded = Created)
    /\ \A s \in Created : FinalRecords(s) \subseteq {1}

\* The step creates an output state and pushes it on the queue.
CreateStep ==
    /\ Len(output_states_') = Len(output_states_) + 1
    /\ SubSeq(output_states_', 1, Len(output_states_)) = output_states_
    /\ queue_' = Append(queue_, Len(output_states_))

\* C28 (state lifecycle): an output state is pushed on the queue in the step
\* that creates it and in no other; the state popped has not been expanded
\* before, leaves the queue and is expanded, ProcessFinal's record being
\* there before any transition record; the queue holds no state twice and
\* no expanded state; and when Determinize has returned the queue is empty
\* and every output state created has been expanded.  (A step from "done"
\* constructs another determinizer and is no step of the run.)
StateLifecycle ==
    [][/\ LifecycleState
       /\ LifecycleState'
       /\ IF pc = "done" THEN TRUE
          ELSE IF PopStep
          THEN \E i \in 1..Len(queue_) :
                  LET s == queue_[i]
                  IN  /\ s \notin expanded
                      /\ queue_' = SubSeq(queue_, 1, i - 1)
                                        \o SubSeq(queue_, i + 1, Len(queue_))
                      /\ expanded' = expanded \cup {s}
                      /\ output_state' = s
                      /\ output_states_' = output_states_
                      /\ \A k \in 1..Len(output_arcs_'[s + 1]) :
                            output_arcs_'[s + 1][k].nextstate = kNoStateId
          ELSE /\ expanded' = expanded
               /\ \/ queue_' = queue_ /\ output_states_' = output_states_
                  \/ CreateStep
      ]_vars

\* Determinize has returned with three output states created and expanded,
\* the first of them with a record.
StateLifecycleWitness ==
    /\ pc = "done"
    /\ Len(output_states_) >= 3
    /\ expanded = Created
    /\ queue_ = <<>>
    /\ output_arcs_[1] # <<>>

\* ------------------------------------------------ the stored subsets' claims
\* The subset is non-empty, its strings have no common prefix and its
\* weights sum to One.
Normalized(r, subset) ==
    /\ subset # <<>>
    /\ IsLongestCommonPrefix(<<>>, {ConvertToVector(r, subset[k].string) :
                                       k \in 1..Len(subset)})
    /\ PlusAll({subset[k].weight : k \in 1..Len(subset)}) = One

\* C29 (stored subsets are normalized): the subset stored for every output
\* state other than state 0 is non-empty, the longest common prefix of its
\* Elements' strings is the empty string, and the Plus of its Elements'
\* weights is One.
CanonicalSubsetsNormalized ==
    \A s \in 1..(Len(output_states_) - 1) :
        Normalized(repository_, output_states_[s + 1])

\* An output state other than 0 is stored with two Elements of different
\* weights, one of them with a non-empty string.
CanonicalSubsetsNormalizedWitness ==
    \E s \in 1..(Len(output_states_) - 1) :
        LET subset == output_states_[s + 1]
        IN  /\ Len(subset) = 2
            /\ subset[1].weight # subset[2].weight
            /\ (subset[1].string # NULL \/ subset[2].string # NULL)
            /\ Normalized(repository_, subset)

\* The subset holds its Elements in strictly ascending order of state.
StrictlyAscending(subset) ==
    \A j, k \in 1..Len(subset) : j < k => subset[j].state < subset[k].state

\* C30 (subset shape): the subset stored for every output state and every
\* subset that is a key of initial_hash_ or of minimal_hash_ is in strictly
\* ascending order of input state, so holds at most one Element per state.
SubsetShape ==
    /\ \A s \in 1..Len(output_states_) : StrictlyAscending(output_states_[s])
    /\ \A e \in initial_hash_ : StrictlyAscending(e.key)
    /\ \A e \in minimal_hash_ : StrictlyAscending(e.key)

\* Determinize has returned with a key of two Elements in initial_hash_,
\* the output state found for it stored and a key of minimal_hash_.
SubsetShapeWitness ==
    /\ pc = "done"
    /\ \E e \in initial_hash_ :
          /\ Len(e.key) = 2
          /\ e.val.state < Len(output_states_)
          /\ \E m \in minimal_hash_ :
                m.val = e.val.state /\ m.key = output_states_[m.val + 1]

\* --------------------------------------------- the interner's other claims
\* C32 (Concatenate): for all handles a and b the handle Concatenate
\* returns denotes the sequence of a followed by that of b; the empty string
\* is an identity on either side; and Concatenate is associative: in one
\* repository both bracketings of a, b, c give the same handle.
ConcatenateLaws ==
    /\ \A a \in Handles, b \in Handles :
          LET ab == Concatenate(repository_, a, b)
          IN  /\ ConvertToVector(ab.r, ab.h) =
                     ConvertToVector(repository_, a)
                         \o ConvertToVector(repository_, b)
              /\ \A c \in Handles :
                    LET left == Concatenate(ab.r, ab.h, c)
                        bc == Concatenate(left.r, b, c)
                        right == Concatenate(bc.r, a, bc.h)
                    IN  right.h = left.h
    /\ \A a \in Handles :
          /\ Concatenate(repository_, a, EmptyString).h = a
          /\ Concatenate(repository_, EmptyString, a).h = a
    /\ op.name = "Concatenate" =>
          ConvertToVector(repository_, op.h) =
              ConvertToVector(repository_, op.args[1])
                  \o ConvertToVector(repository_, op.args[2])

\* Concatenate of two non-empty strings has interned a new sequence.
ConcatenateLawsWitness ==
    /\ op.name = "Concatenate"
    /\ op.args[1] # NULL /\ op.args[2] # NULL
    /\ op.fresh > 0
    /\ Len(ConvertToVector(repository_, op.h)) >= 3

\* C33 (CommonPrefix): for all handles a and b, CommonPrefix(a, b) denotes
\* the longest sequence that is a prefix of both; it is commutative;
\* CommonPrefix(a, a) is a; IsPrefixOf holds of it and a and of it and b; and
\* ReduceToCommonPrefix(a, v) leaves in v the sequence of
\* CommonPrefix(a, ConvertFromVector(v)).
CommonPrefixLaws ==
    /\ \A a \in Handles, b \in Handles :
          LET ab == CommonPrefix(repository_, a, b)
              ba == CommonPrefix(ab.r, b, a)
          IN  /\ IsLongestCommonPrefix(ConvertToVector(ab.r, ab.h),
                                        {ConvertToVector(repository_, a),
                                         ConvertToVector(repository_, b)})
              /\ ba.h = ab.h
              /\ IsPrefixOf(ab.r, ab.h, a)
              /\ IsPrefixOf(ab.r, ab.h, b)
    /\ \A a \in Handles : CommonPrefix(repository_, a, a).h = a
    /\ \A a \in Handles, v \in Vectors :
          LET b == ConvertFromVector(repository_, v)
              c == CommonPrefix(b.r, a, b.h)
          IN  ReduceToCommonPrefix(repository_, a, v) = ConvertToVector(c.r, c.h)
    /\ op.name = "CommonPrefix" =>
          IsLongestCommonPrefix(ConvertToVector(repository_, op.h),
                                {ConvertToVector(repository_, op.args[1]),
                                 ConvertToVector(repository_, op.args[2])})

\* CommonPrefix was called on two sequences of two labels that agree in
\* the first label only.
CommonPrefixLawsWitness ==
    /\ op.name = "CommonPrefix"
    /\ Len(ConvertToVector(repository_, op.args[1])) = 2
    /\ Len(ConvertToVector(repository_, op.args[2])) = 2
    /\ Len(ConvertToVector(repository_, op.h)) = 1

\* The first n labels of the sequence of handle a.
FirstLabels(r, a, n) == SubSeq(ConvertToVector(r, a), 1, n)

\* C34 (RemovePrefix round trip): for every handle a and every n up to the
\* length of a, RemovePrefix(a, n) denotes the labels of a after the first
\* n, and Concatenate of the interned first n labels and RemovePrefix(a, n)
\* is the handle a; with n greater than the length of a the assertion fails.
RemovePrefixRoundTrip ==
    /\ \A a \in Handles :
          LET a_vec == ConvertToVector(repository_, a)
          IN  /\ \A n \in 0..Len(a_vec) :
                    LET rest == RemovePrefix(repository_, a, n)
                        first == ConvertFromVector(rest.r,
                                     FirstLabels(repository_, a, n))
                        whole == Concatenate(first.r, first.h, rest.h)
                    IN  /\ RemovePrefixOk(repository_, a, n)
                        /\ ConvertToVector(rest.r, rest.h) =
                               SubSeq(a_vec, n + 1, Len(a_vec))
                        /\ whole.h = a
              /\ \A n \in (Len(a_vec) + 1)..(Len(a_vec) + MaxVec) :
                    ~RemovePrefixOk(repository_, a, n)
    /\ op.name = "RemovePrefix" =>
          ConvertToVector(repository_, op.h) =
              SubSeq(ConvertToVector(repository_, op.args[1]), op.args[2] + 1,
                     Len(ConvertToVector(repository_, op.args[1])))

\* RemovePrefix has taken a proper non-empty prefix off a sequence and
\* interned the rest as a new sequence.
RemovePrefixRoundTripWitness ==
    /\ op.name = "RemovePrefix"
    /\ op.args[2] > 0
    /\ op.args[2] < Len(ConvertToVector(repository_, op.args[1]))
    /\ op.fresh > 0

\* ------------------------------------------------ the traceback's claim
\* The lower-numbered output states with a record that leads to state s.
Predecessors(s) ==
    {p \in 0..(s - 1) :
        \E k \in 1..Len(output_arcs_[p + 1]) :
            output_arcs_[p + 1][k].nextstate = s}

\* Following predecessors from s reaches state 0 in at most n steps.
RECURSIVE ReachesStart(_, _)
ReachesStart(s, n) ==
    \/ s = 0
    \/ n > 0 /\ \E p \in Predecessors(s) : ReachesStart(p, n - 1)

\* C31 (predecessors): whenever the main loop is between two pops, and when
\* it has ended, every output state other than state 0 has a transition
\* record leading to it from an output state of a lower number, and
\* following such records backwards from any output state reaches state 0.
PredecessorInvariant ==
    pc \in {"Determinize", "done"} =>
        \A s \in 1..(Len(output_arcs_) - 1) :
            /\ Predecessors(s) # {}
            /\ ReachesStart(s, Len(output_arcs_))

\* Determinize has returned with three output states, the third reached
\* from state 0, and with a record that leads from a higher-numbered state
\* back to state 0.
PredecessorInvariantWitness ==
    /\ pc = "done"
    /\ Len(output_arcs_) >= 3
    /\ Predecessors(2) = {0}
    /\ \E p \in 1..(Len(output_arcs_) - 1) :
          \E k \in 1..Len(output_arcs_[p + 1]) :
              output_arcs_[p + 1][k].nextstate = 0

\* --------------------------------------------------- the strings' claim
\* The string handles of the Elements of a subset.
SubsetStrings(subset) == {subset[k].string : k \in 1..Len(subset)}

\* Every string handle an Element, an entry of initial_hash_ or a record
\* holds.
HeldStrings ==
    UNION {SubsetStrings(output_states_[s]) : s \in 1..Len(output_states_)}
    \cup SubsetStrings(cur_subset) \cup SubsetStrings(ec_queue)
    \cup SubsetStrings(frame.subset_in) \cup {frame.common_str}
    \cup {all_elems[k].second.string : k \in 1..Len(all_elems)}
    \cup UNION {SubsetStrings(e.key) \cup {e.val.string} : e \in initial_hash_}
    \cup UNION {SubsetStrings(e.key) : e \in minimal_hash_}
    \cup UNION {{output_arcs_[s][k].string : k \in 1..Len(output_arcs_[s])} :
                   s \in 1..Len(output_arcs_)}

\* The step is a pass of the expanded Output's inner loop.
ExpandedArcStep ==
    pc = "OutputExpanded" /\ AtRecord /\ pc' = "OutputExpanded"
        /\ iter' = iter + 1

\* C35 (no epsilon in strings): no string handle held by an Element, an
\* entry of initial_hash_ or a record denotes a sequence with the label 0,
\* and an arc the expanded Output adds for a record has olabel 0 only when
\* the record's string is empty.
NoEpsilonInStrings ==
    [][/\ \A h \in HeldStrings :
             /\ h \in 0..Len(repository_)
             /\ \A i \in 1..Len(ConvertToVector(repository_, h)) :
                   ConvertToVector(repository_, h)[i] # 0
       /\ ExpandedArcStep =>
             \A k \in (Len(ofst.arcs) + 1)..Len(ofst'.arcs) :
                 ofst'.arcs[k].olabel = 0 =>
                     ConvertToVector(repository_, ThisRecord.string) = <<>>
      ]_vars

\* ------------------------------------------- the transition lists' claims
\* C36 (shape of the transition lists): the list of every output state
\* holds at most one final record, which comes before every transition
\* record of the state; every transition record has an input label other
\* than 0; and the compact Output writes no arc with input label 0.
TransitionListShape ==
    /\ \A s \in OutputStateIds :
          /\ FinalRecords(s) \subseteq {1}
          /\ \A k \in NonFinal(s) : output_arcs_[s + 1][k].ilabel # 0
    /\ pc = "OutputCompact" =>
          \A k \in 1..Len(ofst.arcs) : ofst.arcs[k].ilabel # 0

\* The compact Output has written an arc, and an output state has a final
\* record followed by a transition record.
TransitionListShapeWitness ==
    /\ pc = "OutputCompact"
    /\ ofst.arcs # <<>>
    /\ \E s \in OutputStateIds :
          FinalRecords(s) = {1} /\ NonFinal(s) # {}

KeepingOutputStep ==
    pc \in {"done", "OutputCompact", "OutputExpanded"} /\ ~destroy'

\* C38 (non-destructive output is repeatable): a call of Output with
\* destroy = false, in either mode, leaves output_arcs_, output_states_,
\* both hash tables and the interner as they were, and all calls with
\* destroy = false of one mode have emitted the same automaton.
RepeatableOutput ==
    [][/\ KeepingOutputStep =>
             UNCHANGED <<output_arcs_, output_states_, minimal_hash_,
                         initial_hash_, repository_, released>>
       /\ \A i, j \in 1..Len(emitted') :
             (/\ emitted'[i].compact = emitted'[j].compact
              /\ ~emitted'[i].destroy
              /\ ~emitted'[j].destroy) =>
                 emitted'[i].ofst = emitted'[j].ofst
      ]_vars

\* Two calls of the expanded Output with destroy = false have returned, each
\* with a state added for the labels of a string.
RepeatableOutputWitness ==
    /\ pc = "returned"
    /\ Len(emitted) = 2
    /\ ~emitted[1].compact /\ ~emitted[2].compact
    /\ ~emitted[1].destroy /\ ~emitted[2].destroy
    /\ emitted[2].ofst.nstates > Len(output_arcs_)
    /\ output_arcs_ # <<>>

====
